---------------------------- MODULE Spec2Model ----------------------------
(***************************************************************************)
(* Model of the gadget-discovery engine of ropgadget-rs: the mask-based    *)
(* opcode matcher, the bounded backward walker, the disassembler filter,   *)
(* the batch scheduler and the dedup / address-ordering output pipeline.   *)
(***************************************************************************)
EXTENDS Integers, Sequences, FiniteSets, TLC

(***************************************************************************)
(* Bounds of the model.                                                    *)
(***************************************************************************)
\* longest section data (in bytes) of the walker specification
MaxLen == 4
\* rewind window of the modelled CPU profile (Cpu::max_rewind_size)
MaxRewind == 2
\* number of sections of a scheduler run
MaxSections == 2
\* largest configured number of threads
MaxThreads == 2
\* longest gadget vector handed to the output pipeline specification
MaxGadgets == 3
\* longest byte window of the matcher specification
MaxWindow == 3
\* longest (opcode, mask) pattern of the matcher specification
MaxPatLen == 2

(***************************************************************************)
(* Generic helpers.                                                        *)
(***************************************************************************)
Last(s) == s[Len(s)]

RECURSIVE BitAnd(_, _)
\* u8 `&` (gadget.rs:170)
BitAnd(x, y) ==
    IF x = 0 \/ y = 0 THEN 0
    ELSE (x % 2) * (y % 2) + 2 * BitAnd(x \div 2, y \div 2)

RECURSIVE Flatten(_)
Flatten(ss) == IF ss = <<>> THEN <<>> ELSE Head(ss) \o Flatten(Tail(ss))

RECURSIVE SumSizes(_)
SumSizes(insns) ==
    IF insns = <<>> THEN 0 ELSE Head(insns).size + SumSizes(Tail(insns))

\* all sequences over S of length lo..hi
SeqsOf(S, lo, hi) == UNION { [1..n -> S] : n \in lo..hi }

(***************************************************************************)
(* Strings are sequences of ASCII codes, so that ordering and case folding *)
(* are computed as Rust computes them on the bytes of a String.            *)
(***************************************************************************)
StrSpace == <<32>>
StrSep   == <<32, 59, 32>>            \* " ; "
StrRet   == <<114, 101, 116>>         \* "ret"
StrRetf  == <<114, 101, 116, 102>>    \* "retf"
StrNop   == <<110, 111, 112>>         \* "nop"
StrInt3  == <<105, 110, 116, 51>>     \* "int3"
StrJmp   == <<106, 109, 112>>         \* "jmp"
StrRETUp == <<82, 69, 84>>            \* "RET"

StrHexPrefix == <<48, 120>>         \* "0x"
StrBar    == <<32, 124, 32>>        \* " | "
StrNewline == <<10>>
\* the escape sequences of the `colored` crate
StrCyan   == <<27, 91, 51, 54, 109>>
StrRed    == <<27, 91, 51, 49, 109>>
StrBold   == <<27, 91, 49, 109>>
StrReset  == <<27, 91, 48, 109>>

HexDigit(d) == IF d < 10 THEN 48 + d ELSE 87 + d

RECURSIVE HexStr(_)
\* format!("{:x}", n)
HexStr(n) ==
    IF n < 16 THEN <<HexDigit(n)>>
    ELSE HexStr(n \div 16) \o <<HexDigit(n % 16)>>

RECURSIVE ZeroPad(_, _)
\* the `0<width>` flag of format!
ZeroPad(str, width) ==
    IF Len(str) >= width THEN str ELSE ZeroPad(<<48>> \o str, width)
Hex2(b) == <<HexDigit(b \div 16), HexDigit(b % 16)>>

\* u8::to_ascii_lowercase
ToAsciiLower(c) == IF c >= 65 /\ c <= 90 THEN c + 32 ELSE c

\* str::eq_ignore_ascii_case
eq_ignore_ascii_case(a, b) ==
    /\ Len(a) = Len(b)
    /\ \A k \in 1..Len(a) : ToAsciiLower(a[k]) = ToAsciiLower(b[k])

RECURSIVE StrLess(_, _)
\* `<` of String (Ord): lexicographic on the bytes, a proper prefix is less
StrLess(a, b) ==
    IF b = <<>> THEN FALSE
    ELSE IF a = <<>> THEN TRUE
    ELSE IF Head(a) # Head(b) THEN Head(a) < Head(b)
    ELSE StrLess(Tail(a), Tail(b))

(***************************************************************************)
(* CPU profile: X64 of cpu/x86.rs.  Bytes are written in decimal.          *)
(***************************************************************************)
\* X64::ptrsize
X64_ptrsize == 8
\* X64::insn_step
X64_insn_step == 1

\* X64::ret_insns : RET, RETF, RET imm16, RETF imm16
X64_ret_insns ==
    << <<(<<195>>), (<<255>>)>>,
       <<(<<203>>), (<<255>>)>>,
       <<(<<194, 0, 0>>), (<<255, 0, 0>>)>>,
       <<(<<207, 0, 0>>), (<<255, 0, 0>>)>> >>

\* X64::call_insns
X64_call_insns ==
    << <<(<<232, 0, 0, 0, 0>>), (<<255, 0, 0, 0, 0>>)>>,
       <<(<<255, 208>>), (<<255, 240>>)>>,
       <<(<<65, 255, 208>>), (<<255, 255, 240>>)>>,
       <<(<<255, 16>>), (<<255, 240>>)>>,
       <<(<<65, 255, 16>>), (<<65, 255, 240>>)>>,
       <<(<<255, 81, 0>>), (<<255, 240, 0>>)>>,
       <<(<<65, 255, 81, 0>>), (<<255, 255, 240, 0>>)>> >>

\* X64::jmp_insns : JMP REG64, JMP REX.W REG64, JMP imm8, JMP imm32
X64_jmp_insns ==
    << <<(<<255, 224>>), (<<255, 248>>)>>,
       <<(<<65, 255, 224>>), (<<255, 255, 248>>)>>,
       <<(<<235, 0>>), (<<255, 0>>)>>,
       <<(<<233, 0, 0, 0, 0>>), (<<255, 0, 0, 0, 0>>)>> >>

\* the profile handed to the matcher and the walker
X64 ==
    [ cpu_type        |-> "X64",
      ptrsize         |-> X64_ptrsize,
      insn_step       |-> X64_insn_step,
      max_rewind_size |-> MaxRewind,
      ret_insns       |-> X64_ret_insns,
      call_insns      |-> X64_call_insns,
      jmp_insns       |-> X64_jmp_insns ]

(***************************************************************************)
(* The other CPU profiles: X86 of cpu/x86.rs, Arm and Arm64 of cpu/arm.rs  *)
(* (whose tables are written most significant byte first and reversed).    *)
(***************************************************************************)
X86_ptrsize == 4
X86_insn_step == 1

\* X86::ret_insns : ret, retf, ret imm16, retf imm16
X86_ret_insns ==
    << <<(<<195>>), (<<255>>)>>,
       <<(<<203>>), (<<255>>)>>,
       <<(<<194, 0, 0>>), (<<255, 0, 0>>)>>,
       <<(<<207, 0, 0>>), (<<255, 0, 0>>)>> >>

\* X86::call_insns : CALL rel32, CALL REG32, CALL [REG32], CALL [REG32+DISP8]
X86_call_insns ==
    << <<(<<232, 0, 0, 0, 0>>), (<<255, 0, 0, 0, 0>>)>>,
       <<(<<255, 208>>), (<<255, 240>>)>>,
       <<(<<255, 16>>), (<<255, 240>>)>>,
       <<(<<255, 81, 0>>), (<<255, 240, 0>>)>> >>

\* X86::jmp_insns : JMP imm32, JMP REG32
X86_jmp_insns ==
    << <<(<<233, 0, 0, 0, 0>>), (<<255, 0, 0, 0, 0>>)>>,
       <<(<<255, 231>>), (<<255, 248>>)>> >>

X86 ==
    [ cpu_type        |-> "X86",
      ptrsize         |-> X86_ptrsize,
      insn_step       |-> X86_insn_step,
      max_rewind_size |-> MaxRewind,
      ret_insns       |-> X86_ret_insns,
      call_insns      |-> X86_call_insns,
      jmp_insns       |-> X86_jmp_insns ]

Arm_ptrsize == 4
Arm_insn_step == 4
Arm_max_rewind_size == 16

\* Vec::into_iter().rev().collect()
Reverse(v) == [k \in 1..Len(v) |-> v[Len(v) + 1 - k]]

\* Arm::ret_insns
Arm_ret_insns ==
    << <<Reverse(<<214, 95, 3, 192>>), Reverse(<<255, 255, 255, 255>>)>> >>

\* Arm::call_insns : BX
Arm_call_insns ==
    << <<Reverse(<<209, 47, 255, 16>>), Reverse(<<255, 255, 255, 240>>)>> >>

\* Arm::jmp_insns
Arm_jmp_insns == <<>>

Arm ==
    [ cpu_type        |-> "ARM",
      ptrsize         |-> Arm_ptrsize,
      insn_step       |-> Arm_insn_step,
      max_rewind_size |-> Arm_max_rewind_size,
      ret_insns       |-> Arm_ret_insns,
      call_insns      |-> Arm_call_insns,
      jmp_insns       |-> Arm_jmp_insns ]

Arm64_ptrsize == 8
Arm64_insn_step == 4
Arm64_max_rewind_size == 16

\* Arm64::ret_insns : RET
Arm64_ret_insns ==
    << <<Reverse(<<214, 95, 3, 192>>), Reverse(<<255, 255, 255, 255>>)>> >>

\* Arm64::call_insns : BLR
Arm64_call_insns ==
    << <<Reverse(<<214, 63, 0, 0>>), Reverse(<<255, 255, 240, 31>>)>> >>

\* Arm64::jmp_insns : BR
Arm64_jmp_insns ==
    << <<Reverse(<<214, 31, 0, 0>>), Reverse(<<255, 255, 240, 31>>)>> >>

Arm64 ==
    [ cpu_type        |-> "ARM64",
      ptrsize         |-> Arm64_ptrsize,
      insn_step       |-> Arm64_insn_step,
      max_rewind_size |-> Arm64_max_rewind_size,
      ret_insns       |-> Arm64_ret_insns,
      call_insns      |-> Arm64_call_insns,
      jmp_insns       |-> Arm64_jmp_insns ]

\* the profiles of cpu/
CpuProfiles == {X86, X64, Arm, Arm64}

(***************************************************************************)
(* Disassembler (engine.rs).  Capstone itself is an external library; the  *)
(* bytes the model uses are decoded as x86-64 decodes them.                *)
(***************************************************************************)
INSN_GRP_JUMP == 1
INSN_GRP_CALL == 2
INSN_GRP_RET  == 3
INSN_GRP_INT  == 4
INSN_GRP_IRET == 5
INSN_GRP_PRIV == 6

\* the bytes section data is drawn from:
\*   06 (invalid in 64-bit mode), 90 nop, c3 ret, cb retf, cc int3, eb jmp rel8
SectionBytes == {6, 144, 195, 203, 204, 235}

\* length of the instruction starting with opcode byte op (0: does not decode)
InsnLength(op) ==
    CASE op = 144 -> 1
      [] op = 195 -> 1
      [] op = 203 -> 1
      [] op = 204 -> 1
      [] op = 235 -> 2
      [] OTHER    -> 0

InsnMnemonic(op) ==
    CASE op = 144 -> StrNop
      [] op = 195 -> StrRet
      [] op = 203 -> StrRetf
      [] op = 204 -> StrInt3
      [] op = 235 -> StrJmp
      [] OTHER    -> <<>>

\* Capstone's group list of the instruction; jmp rel8 also carries the
\* branch-relative group, the one after INSN_GRP_PRIV, which the engine
\* does not map
InsnGroups(op) ==
    CASE op = 195 -> <<INSN_GRP_RET>>
      [] op = 203 -> <<INSN_GRP_RET>>
      [] op = 204 -> <<INSN_GRP_INT>>
      [] op = 235 -> <<INSN_GRP_JUMP, INSN_GRP_PRIV + 1>>
      [] OTHER    -> <<>>

\* one decoded cs_insn; op_str is an Option modelled as a sequence of 0 or 1
CsInsn(bytes, address) ==
    [ bytes    |-> bytes,
      address  |-> address,
      mnemonic |-> InsnMnemonic(bytes[1]),
      op_str   |-> IF Len(bytes) > 1 THEN <<Hex2(bytes[2])>> ELSE <<>>,
      groups   |-> InsnGroups(bytes[1]) ]

RECURSIVE disasm_all(_, _)
\* Capstone::disasm_all: decode from the start, stop at the first byte
\* sequence that does not decode (so fewer bytes than given may be decoded)
disasm_all(code, address) ==
    IF code = <<>> THEN <<>>
    ELSE LET n == InsnLength(Head(code))
         IN IF n = 0 \/ n > Len(code) THEN <<>>
            ELSE <<CsInsn(SubSeq(code, 1, n), address)>>
                 \o disasm_all(SubSeq(code, n + 1, Len(code)), address + n)

RECURSIVE insn_group_of(_, _)
\* engine.rs:197-211: the last mapped group of the list wins
insn_group_of(groups, acc) ==
    IF groups = <<>> THEN acc
    ELSE LET g == Head(groups)
             mapped ==
                 CASE g = INSN_GRP_JUMP -> "Jump"
                   [] g = INSN_GRP_CALL -> "Call"
                   [] g = INSN_GRP_PRIV -> "Privileged"
                   [] g = INSN_GRP_INT  -> "Int"
                   [] g = INSN_GRP_IRET -> "Iret"
                   [] g = INSN_GRP_RET  -> "Ret"
                   [] OTHER             -> acc
         IN insn_group_of(Tail(groups), mapped)

\* engine.rs:223-231
Instruction(cs_insn) ==
    [ raw      |-> cs_insn.bytes,
      size     |-> Len(cs_insn.bytes),
      mnemonic |-> cs_insn.mnemonic,
      operands |-> cs_insn.op_str,
      address  |-> cs_insn.address,
      group    |-> insn_group_of(cs_insn.groups, "Undefined") ]

\* mutant of filter_breaks: a jump no longer stops the reverse scan
filter_breaks_no_jump(insn, insns) ==
    /\ insn.group \in {"Call", "Ret"}
    /\ Len(insns) > 0

\* engine.rs:243-252: does the reverse scan stop at this instruction?
filter_breaks(insn, insns) ==
    /\ insn.group \in {"Jump", "Call", "Ret"}
    /\ Len(insns) > 0

RECURSIVE filter_rev_skip(_, _)
\* mutant of filter_rev: `continue` instead of `break`, the disqualified
\* instruction is skipped and the scan goes on
filter_rev_skip(candidates, insns) ==
    IF candidates = <<>> THEN insns
    ELSE LET insn == Last(candidates)
         IN IF filter_breaks(insn, insns)
            THEN filter_rev_skip(SubSeq(candidates, 1, Len(candidates) - 1), insns)
            ELSE filter_rev_skip(SubSeq(candidates, 1, Len(candidates) - 1),
                                 <<insn>> \o insns)

RECURSIVE filter_rev(_, _)
\* engine.rs:241-255: candidates is consumed from its end, insns grows at
\* its front
filter_rev(candidates, insns) ==
    IF candidates = <<>> THEN insns
    ELSE LET insn == Last(candidates)
         IN IF filter_breaks(insn, insns) THEN insns
            ELSE filter_rev(SubSeq(candidates, 1, Len(candidates) - 1),
                            <<insn>> \o insns)

\* engine.rs:161-258; the Option result is [some |-> BOOLEAN, val |-> insns]
cs_disassemble(code, address) ==
    LET cs_insns == disasm_all(code, address)
    IN IF Len(cs_insns) = 0 THEN [some |-> FALSE, val |-> <<>>]
       ELSE LET candidates == [k \in 1..Len(cs_insns) |-> Instruction(cs_insns[k])]
            IN [some |-> TRUE, val |-> filter_rev(candidates, <<>>)]

\* the A64 words the model decodes: RET (d65f03c0) and NOP (d503201f), in
\* memory order; every other word is undefined
ArmWordRet == <<192, 3, 95, 214>>
ArmWordNop == <<31, 32, 3, 213>>

RECURSIVE arm_disasm_all(_, _)
\* Capstone::disasm_all in an ARM mode: fixed 4-byte instructions, decoding
\* stops at the first word that does not decode or is incomplete
arm_disasm_all(code, address) ==
    IF Len(code) < 4 THEN <<>>
    ELSE LET word == SubSeq(code, 1, 4)
         IN IF word \notin {ArmWordRet, ArmWordNop} THEN <<>>
            ELSE <<[ bytes    |-> word,
                     address  |-> address,
                     mnemonic |-> IF word = ArmWordRet THEN StrRet ELSE StrNop,
                     op_str   |-> <<>>,
                     groups   |-> IF word = ArmWordRet THEN <<INSN_GRP_RET>>
                                  ELSE <<>> ]>>
                 \o arm_disasm_all(SubSeq(code, 5, Len(code)), address + 4)

\* cs_disassemble of an engine built for ARM or ARM64
arm_disassemble(code, address) ==
    LET cs_insns == arm_disasm_all(code, address)
    IN IF Len(cs_insns) = 0 THEN [some |-> FALSE, val |-> <<>>]
       ELSE LET candidates == [k \in 1..Len(cs_insns) |-> Instruction(cs_insns[k])]
            IN [some |-> TRUE, val |-> filter_rev(candidates, <<>>)]

\* engine.rs:59-62, 130-157: Disassembler::disassemble of the engine built
\* for the CPU type
Disassembler_disassemble(cpu_type, code, address) ==
    IF cpu_type \in {"X86", "X64"} THEN cs_disassemble(code, address)
    ELSE arm_disassemble(code, address)

(***************************************************************************)
(* Gadget (gadget.rs).                                                     *)
(***************************************************************************)
\* Instruction::text(false)
Instruction_text(insn) ==
    insn.mnemonic \o
    (IF insn.operands = <<>> THEN <<>> ELSE StrSpace \o insn.operands[1])

\* Gadget::new (the caller never passes an empty list: gadget.rs:286)
Gadget_new(insns) ==
    [ size    |-> SumSizes(insns),
      raw     |-> Flatten([k \in 1..Len(insns) |-> insns[k].raw]),
      address |-> insns[1].address,
      insns   |-> insns ]

\* Gadget::text(false)
Gadget_text(g) ==
    Flatten([k \in 1..Len(g.insns) |-> Instruction_text(g.insns[k]) \o StrSep])

\* Instruction::text(use_color)
Instruction_text_of(insn, use_color) ==
    IF use_color
    THEN StrCyan \o insn.mnemonic \o StrReset \o
         (IF insn.operands = <<>> THEN <<>>
          ELSE StrSpace \o StrBold \o insn.operands[1] \o StrReset)
    ELSE Instruction_text(insn)

\* Gadget::text(use_color)
Gadget_text_of(g, use_color) ==
    Flatten([k \in 1..Len(g.insns) |->
                Instruction_text_of(g.insns[k], use_color) \o StrSep])

(***************************************************************************)
(* Pattern matcher (gadget.rs:144-220).  Offsets are 0-based as in the     *)
(* code; sequences are 1-based.                                            *)
(***************************************************************************)
\* mutant of window_matches: the mask is not applied
window_matches_unmasked(memory_chunk, bytes, mask, pos) ==
    \A k \in 1..Len(bytes) : memory_chunk[pos + k] = bytes[k]

\* gadget.rs:166-173: does the window at offset pos match (bytes, mask)?
\* Iterator::cmp compares the masked window with the opcode bytes
window_matches(memory_chunk, bytes, mask, pos) ==
    \A k \in 1..Len(bytes) : BitAnd(memory_chunk[pos + k], mask[k]) = bytes[k]

RECURSIVE scan_windows(_, _, _, _)
\* gadget.rs:163-175: windows(bytes_length).enumerate().filter().map()
scan_windows(memory_chunk, bytes, mask, pos) ==
    IF pos + Len(bytes) > Len(memory_chunk) THEN <<>>
    ELSE (IF window_matches(memory_chunk, bytes, mask, pos)
          THEN << <<pos, Len(bytes)>> >> ELSE <<>>)
         \o scan_windows(memory_chunk, bytes, mask, pos + 1)

\* mutant of stops_after_match: the `break` of the Fast strategy is missing
stops_after_match_never(profile_type) == FALSE

\* gadget.rs:180-185: does the pattern loop stop after a pattern with matches?
stops_after_match(profile_type) == profile_type = "Fast"

RECURSIVE collect_previous_instructions(_, _, _)
\* gadget.rs:144-190
collect_previous_instructions(profile_type, group, memory_chunk) ==
    IF group = <<>> THEN <<>>
    ELSE LET bytes  == Head(group)[1]
             mask   == Head(group)[2]
             chunks == scan_windows(memory_chunk, bytes, mask, 0)
         IN IF Len(chunks) > 0 /\ stops_after_match(profile_type)
            THEN chunks
            ELSE chunks \o collect_previous_instructions(profile_type, Tail(group),
                                                         memory_chunk)

\* gadget.rs:200-217: the pattern list of the requested terminator group
patterns_of(gadget_type, cpu) ==
    CASE gadget_type = "Ret"  -> cpu.ret_insns
      [] gadget_type = "Call" -> cpu.call_insns
      [] gadget_type = "Jump" -> cpu.jmp_insns

\* gadget.rs:192-220
get_all_valid_positions_and_length(session, cpu, section, cursor) ==
    collect_previous_instructions(
        session.profile_type,
        patterns_of(session.gadget_type, cpu),
        SubSeq(section.data, cursor + 1, Len(section.data)))

(***************************************************************************)
(* Backward walker (gadget.rs:225-315).                                    *)
(***************************************************************************)
\* mutant of window_start: the window always starts at the section start
window_start_unbounded(initial_position, max_invalid_size) == 0

\* gadget.rs:236-240: offset in the section where the scan window starts
window_start(initial_position, max_invalid_size) ==
    IF initial_position < max_invalid_size THEN 0
    ELSE initial_position - max_invalid_size

\* mutant of ends_with_terminator: the group of the last instruction is
\* not compared with the requested one
ends_with_terminator_any(session, x) == TRUE

\* gadget.rs:288: is the decoded sequence kept as a gadget?
ends_with_terminator(session, x) == session.gadget_type = Last(x).group

\* mutant of address_is_new: the address of the gadget is not looked up
address_is_new_always(gadgets, gadget) == TRUE

\* gadget.rs:290: gadgets.iter().all(|x| x.address != gadget.address)
address_is_new(gadgets, gadget) ==
    \A k \in 1..Len(gadgets) : gadgets[k].address # gadget.address

RECURSIVE walk_loop(_, _, _, _)
\* gadget.rs:253-312, one iteration per call; c holds the loop invariants, and
\* calls counts the calls of engine.disassemble (gadget.rs:278)
walk_loop(c, sz, nb_invalid, gadgets) ==
    IF sz - c.step >= Len(c.data)
    THEN [ok |-> TRUE, gadgets |-> gadgets, calls |-> 0]
    ELSE IF Len(c.data) - sz < 0
    THEN [ok |-> FALSE, gadgets |-> <<>>, calls |-> 0]
    ELSE
        LET candidate == SubSeq(c.data, Len(c.data) - sz + 1, Len(c.data))
            addr      == c.start_address + c.s + Len(c.data) - sz
            insns     == Disassembler_disassemble(c.cpu_type, candidate, addr)
            rest      ==
                IF insns.some
                THEN LET x    == insns.val
                         push == /\ x # <<>>
                                 /\ ends_with_terminator(c.session, x)
                                 /\ address_is_new(gadgets, Gadget_new(x))
                     IN walk_loop(c, sz + c.step, 0,
                                  IF push THEN Append(gadgets, Gadget_new(x))
                                  ELSE gadgets)
                ELSE IF nb_invalid + 1 = c.max_invalid_size
                     THEN [ok |-> TRUE, gadgets |-> gadgets, calls |-> 0]
                     ELSE walk_loop(c, sz + c.step, nb_invalid + 1, gadgets)
        IN [rest EXCEPT !.calls = @ + 1]

\* gadget.rs:225-315; the result is Ok(gadgets) or Err (ok = FALSE)
find_gadgets_from_position(session, section, initial_position, initial_len, cpu) ==
    LET max_invalid_size == cpu.max_rewind_size
        s == window_start(initial_position, max_invalid_size)
        c == [ session          |-> session,
               start_address    |-> section.start_address,
               s                |-> s,
               data             |-> SubSeq(section.data, s + 1,
                                           initial_position + initial_len),
               step             |-> cpu.insn_step,
               cpu_type         |-> cpu.cpu_type,
               max_invalid_size |-> max_invalid_size ]
    IN walk_loop(c, initial_len, 0, <<>>)

(***************************************************************************)
(* Section worker (session.rs:494-535).                                    *)
(***************************************************************************)
\* the walks of one worker: one record per candidate terminator, in the
\* order of the matcher
walks_of(session, section, cpu) ==
    LET positions == get_all_valid_positions_and_length(session, cpu, section, 0)
    IN [k \in 1..Len(positions) |->
          [ pos |-> positions[k][1],
            len |-> positions[k][2],
            res |-> find_gadgets_from_position(session, section, positions[k][1],
                                               positions[k][2], cpu) ]]

\* mutant of process_section: the loop over the positions stops after the
\* first walk
process_section_first(walks) ==
    IF walks # <<>> /\ walks[1].res.ok THEN walks[1].res.gadgets ELSE <<>>

\* session.rs:508-535: the gadgets of every walk that returned Ok, appended
process_section(walks) ==
    Flatten([k \in 1..Len(walks) |->
                IF walks[k].res.ok THEN walks[k].res.gadgets ELSE <<>>])

(***************************************************************************)
(* Output pipeline (lib.rs:57-77).                                         *)
(***************************************************************************)
RECURSIVE insert_by_text(_, _)
\* stable insertion: x goes before the first element whose key is greater
insert_by_text(x, s) ==
    IF s = <<>> THEN <<x>>
    ELSE IF StrLess(Gadget_text(x), Gadget_text(Head(s))) THEN <<x>> \o s
    ELSE <<Head(s)>> \o insert_by_text(x, Tail(s))

RECURSIVE sort_by_key_text(_)
\* lib.rs:66: gadgets.sort_by_key(|a| a.text(false)), a stable sort
sort_by_key_text(v) ==
    IF v = <<>> THEN <<>>
    ELSE insert_by_text(Last(v), sort_by_key_text(SubSeq(v, 1, Len(v) - 1)))

RECURSIVE dedup_by_address(_, _)
\* lib.rs:67 with the addresses compared in place of the texts
dedup_by_address(v, kept) ==
    IF v = <<>> THEN kept
    ELSE IF kept # <<>> /\ Head(v).address = Last(kept).address
         THEN dedup_by_address(Tail(v), kept)
         ELSE dedup_by_address(Tail(v), Append(kept, Head(v)))

RECURSIVE dedup_by_text(_, _)
\* lib.rs:67: gadgets.dedup_by(|a, b| a.text(false).eq_ignore_ascii_case(..)):
\* an element equal to the last retained one is dropped
dedup_by_text(v, kept) ==
    IF v = <<>> THEN kept
    ELSE IF kept # <<>> /\ eq_ignore_ascii_case(Gadget_text(Head(v)),
                                                 Gadget_text(Last(kept)))
         THEN dedup_by_text(Tail(v), kept)
         ELSE dedup_by_text(Tail(v), Append(kept, Head(v)))

RECURSIVE insert_by_address(_, _)
insert_by_address(x, s) ==
    IF s = <<>> THEN <<x>>
    ELSE IF x.address < Head(s).address THEN <<x>> \o s
    ELSE <<Head(s)>> \o insert_by_address(x, Tail(s))

RECURSIVE sort_by_address(_)
\* lib.rs:77: gadgets.sort_by(|a, b| a.address.cmp(&b.address)), a stable sort
sort_by_address(v) ==
    IF v = <<>> THEN <<>>
    ELSE insert_by_address(Last(v), sort_by_address(SubSeq(v, 1, Len(v) - 1)))

\* mutant of postprocess: the address sort runs before the dedup
postprocess_sort_first(v, unique_only) ==
    IF unique_only THEN dedup_by_text(sort_by_key_text(sort_by_address(v)), <<>>)
    ELSE sort_by_address(v)

\* lib.rs:60-77: the vector after the optional dedup and the address sort
postprocess(v, unique_only) ==
    sort_by_address(IF unique_only THEN dedup_by_text(sort_by_key_text(v), <<>>)
                    ELSE v)

\* lib.rs:91-105: the line println! writes for a gadget on the console
console_line(g, use_color, is_64b) ==
    LET addr == StrHexPrefix \o
                ZeroPad(HexStr(g.address), IF is_64b THEN 16 ELSE 8)
    IN (IF use_color THEN StrRed \o addr \o StrReset ELSE addr)
       \o StrBar \o Gadget_text_of(g, use_color) \o StrNewline

\* lib.rs:120-121: the line written to the file for a gadget
file_line(g, entrypoint_address) ==
    LET addr == entrypoint_address + g.address
    IN StrHexPrefix \o HexStr(addr) \o StrBar \o Gadget_text_of(g, FALSE)
       \o StrNewline

\* the outcomes of the I/O of the sink, as the number of the operation that
\* fails (0: none fails).  File: operation 1 is File::create (lib.rs:119),
\* operation k + 1 the write_all of line k (lib.rs:122).  Console: operation
\* k is the println! of line k (lib.rs:101-105).  None does no I/O
IoFailures(output, n) ==
    CASE output = "File"    -> 0..(n + 1)
      [] output = "Console" -> 0..n
      [] OTHER              -> {0}

\* lib.rs:82-131: what the sink holds after the match, and how the match
\* ends: "Ok" (falls through), "Err" (`?` returns the io::Error), "Panic"
\* (println! panics when the write to stdout fails)
write_output(sess, v, fail) ==
    CASE sess.output = "Console" ->
            LET n == IF fail = 0 THEN Len(v) ELSE fail - 1
            IN [ console |-> [k \in 1..n |->
                                 console_line(v[k], sess.use_color,
                                              X64_ptrsize = 8)],
                 file    |-> <<>>,
                 created |-> FALSE,
                 result  |-> IF fail = 0 THEN "Ok" ELSE "Panic" ]
      [] sess.output = "File" ->
            LET n == IF fail = 0 THEN Len(v) ELSE IF fail = 1 THEN 0 ELSE fail - 2
            IN [ console |-> <<>>,
                 file    |-> [k \in 1..n |-> file_line(v[k], sess.entry_point)],
                 created |-> fail # 1,
                 result  |-> IF fail = 0 THEN "Ok" ELSE "Err" ]
      [] OTHER ->
            [ console |-> <<>>, file |-> <<>>, created |-> FALSE,
              result |-> "Ok" ]

(***************************************************************************)
(* Sections (section.rs, format/pe.rs).                                    *)
(***************************************************************************)
\* format/pe.rs:393-399: the Section the PE iterator builds from a header.
\* data is the raw_size bytes of the file, the address range is virtual_size
pe_section(image_base, virtual_address, virtual_size, raw_data) ==
    [ start_address |-> image_base + virtual_address,
      end_address   |-> image_base + virtual_address + virtual_size,
      data          |-> raw_data ]

\* image base and section alignment of the modelled files
ImageBase == 4096
SectionAlignment == 16

(***************************************************************************)
(* PE loader (format/mod.rs, format/pe.rs).  A file is its sequence of     *)
(* bytes; offsets are 0-based as in the code.                              *)
(***************************************************************************)
\* slice.get(a..b) is Some exactly when the range lies in the slice;
\* slice[a..b] panics when it does not
InRange(bytes, a, b) == a <= b /\ b <= Len(bytes)
Slice(bytes, a, b) == SubSeq(bytes, a + 1, b)

\* u16::from_le_bytes, u32::from_le_bytes of the bytes at off
le16(bytes, off) == bytes[off + 1] + 256 * bytes[off + 2]
le32(bytes, off) ==
    bytes[off + 1] + 256 * bytes[off + 2] + 65536 * bytes[off + 3]
    + 16777216 * bytes[off + 4]

IMAGE_DOS_SIGNATURE == <<77, 90>>            \* b"MZ"
IMAGE_NT_SIGNATURE  == <<80, 69, 0, 0>>      \* b"PE\0\0"
IMAGE_FILE_MACHINE_I386   == 332             \* 0x014c
IMAGE_FILE_MACHINE_X86_64 == 34404           \* 0x8664
IMAGE_FILE_MACHINE_ARM64  == 43620           \* 0xaa64
\* mem::size_of::<ImageFileHeader>()
IMAGE_NT_HEADER_SIZE == 24
\* mem::size_of::<ImageSectionHeader>()
IMAGE_SECTION_HEADER_SIZE == 40
\* mem::offset_of!(ImageDosHeader, e_lfanew)
OFFSET_E_LFANEW == 60
\* the bits of the most significant byte of the section characteristics:
\* IMAGE_SCN_MEM_EXECUTE 0x20000000, _READ 0x40000000, _WRITE 0x80000000
SCN_BYTE_EXECUTE == 32
SCN_BYTE_READ    == 64
SCN_BYTE_WRITE   == 128

ParseErr(e) == [kind |-> "Err", error |-> e, val |-> <<>>]
ParsePanic  == [kind |-> "Panic", error |-> "none", val |-> <<>>]
ParseOk(v)  == [kind |-> "Ok", error |-> "none", val |-> v]

\* pe.rs:230-235: the CPU type of a machine tag ("" when none)
pe_machine(machine) ==
    CASE machine = IMAGE_FILE_MACHINE_I386   -> "X86"
      [] machine = IMAGE_FILE_MACHINE_X86_64 -> "X64"
      [] machine = IMAGE_FILE_MACHINE_ARM64  -> "ARM64"
      [] OTHER                               -> ""

\* pe.rs:287-292,300-305: offsets of image_base and address_of_entry_point
\* in ImageOptionalHeader32 / ImageOptionalHeader64
image_base_off(cpu_type) == IF cpu_type = "X86" THEN 28 ELSE 24
entry_point_off(cpu_type) == 16

\* pe.rs:196-321: PeParser::parse
PeParser_parse(bytes) ==
    IF ~(InRange(bytes, 0, 2) /\ Slice(bytes, 0, 2) = IMAGE_DOS_SIGNATURE)
    THEN ParseErr("InvalidMagicParsingError")
    ELSE IF ~InRange(bytes, OFFSET_E_LFANEW, OFFSET_E_LFANEW + 4)
    THEN ParsePanic
    ELSE
    LET pe_offset == le32(bytes, OFFSET_E_LFANEW) IN
    IF ~(/\ InRange(bytes, pe_offset, pe_offset + 4)
         /\ Slice(bytes, pe_offset, pe_offset + 4) = IMAGE_NT_SIGNATURE)
    THEN ParseErr("InvalidStructureParsingError")
    ELSE
    LET pe_header == Slice(bytes, pe_offset, Len(bytes)) IN
    IF ~InRange(pe_header, 4, 6) THEN ParsePanic
    ELSE
    LET machine == pe_machine(le16(pe_header, 4)) IN
    IF machine = "" THEN ParseErr("UnsupportedCpuError")
    ELSE IF ~InRange(pe_header, 6, 8) THEN ParsePanic
    ELSE IF ~InRange(pe_header, 20, 22) THEN ParsePanic
    ELSE IF ~InRange(pe_header, IMAGE_NT_HEADER_SIZE, Len(pe_header)) THEN ParsePanic
    ELSE
    LET opt_hdrs == Slice(pe_header, IMAGE_NT_HEADER_SIZE, Len(pe_header)) IN
    IF ~InRange(opt_hdrs, image_base_off(machine), image_base_off(machine) + 4)
    THEN ParsePanic
    ELSE IF ~InRange(opt_hdrs, entry_point_off(machine),
                     entry_point_off(machine) + 4)
    THEN ParsePanic
    ELSE ParseOk([ bytes                |-> bytes,
                   machine              |-> machine,
                   number_of_sections   |-> le16(pe_header, 6),
                   image_base           |-> le32(opt_hdrs, image_base_off(machine)),
                   entry_point          |-> le32(opt_hdrs, entry_point_off(machine)),
                   section_table_offset |-> pe_offset + IMAGE_NT_HEADER_SIZE
                                            + le16(pe_header, 20) ])

\* section.rs:27-41: Permission::from(PeCharacteristics), on the most
\* significant byte of the characteristics
Permission_from_pe(top) ==
    (IF BitAnd(top, SCN_BYTE_READ) # 0 THEN {"READABLE"} ELSE {}) \cup
    (IF BitAnd(top, SCN_BYTE_WRITE) # 0 THEN {"WRITABLE"} ELSE {}) \cup
    (IF BitAnd(top, SCN_BYTE_EXECUTE) # 0 THEN {"EXECUTABLE"} ELSE {})

\* pe.rs:349-400: SectionIterator::next for section_index; every read of the
\* header indexes the file and panics past its end, and so does the slice of
\* the raw data
SectionIterator_next(pe, section_index) ==
    LET dos_header     == pe.bytes
        section_offset == pe.section_table_offset
                          + section_index * IMAGE_SECTION_HEADER_SIZE
    IN IF ~InRange(dos_header, section_offset,
                   section_offset + IMAGE_SECTION_HEADER_SIZE)
       THEN ParsePanic
       ELSE
       LET virtual_size    == le32(dos_header, section_offset + 8)
           virtual_address == le32(dos_header, section_offset + 12)
           raw_size        == le32(dos_header, section_offset + 16)
           raw_offset      == le32(dos_header, section_offset + 20)
           top             == dos_header[section_offset + 40]
       IN IF ~InRange(dos_header, raw_offset, raw_offset + raw_size)
          THEN ParsePanic
          ELSE
          LET sec == pe_section(pe.image_base, virtual_address, virtual_size,
                                Slice(dos_header, raw_offset,
                                      raw_offset + raw_size))
          IN ParseOk([ start_address |-> sec.start_address,
                       end_address   |-> sec.end_address,
                       name          |-> Slice(dos_header, section_offset,
                                               section_offset + 8),
                       permission    |-> Permission_from_pe(top),
                       data          |-> sec.data ])

RECURSIVE PeParser_sections(_, _)
\* pe.rs:323-335: PeParser::sections, from section index on
PeParser_sections(pe, index) ==
    IF index >= pe.number_of_sections THEN ParseOk(<<>>)
    ELSE LET res == SectionIterator_next(pe, index)
         IN IF res.kind # "Ok" THEN res
            ELSE LET rest == PeParser_sections(pe, index + 1)
                 IN IF rest.kind # "Ok" THEN rest
                    ELSE ParseOk(<<res.val>> \o rest.val)

\* Iterator::filter(|s| s.permission.contains(Permission::EXECUTABLE))
filter_executable(secs) ==
    SelectSeq(secs, LAMBDA sec : "EXECUTABLE" \in sec.permission)

\* pe.rs:469-545: Pe::new
Pe_new(buf) ==
    LET pe == PeParser_parse(buf)
    IN IF pe.kind # "Ok" THEN pe
       ELSE LET secs == PeParser_sections(pe.val, 0)
            IN IF secs.kind # "Ok" THEN secs
               ELSE ParseOk([ sections    |-> filter_executable(secs.val),
                              cpu_type    |-> pe.val.machine,
                              entry_point |-> pe.val.entry_point ])

\* format/mod.rs:29-48: FileFormat::parse; a buffer that starts with "MZ"
\* is handed to the PE parser
FileFormat_parse(buf) ==
    IF ~InRange(buf, 0, 4) THEN ParseErr("InvalidFileError")
    ELSE IF Slice(buf, 0, 2) # IMAGE_DOS_SIGNATURE
    THEN ParseErr("InvalidMagicParsingError")
    ELSE Pe_new(buf)

(***************************************************************************)
(* State.                                                                  *)
(***************************************************************************)
VARIABLES
    session,     \* nb_thread, gadget_type, profile_type, unique_only
    sections,    \* the executable sections of the input
    pc,          \* position of the main thread
    i,           \* find_gadgets: number of sections handed to a worker
    threads,     \* find_gadgets: the join handles of the current batch
    j,           \* find_gadgets: number of handles of the batch already joined
    gadgets,     \* Session.gadgets, the shared result vector
    found,       \* the shared vector as find_gadgets left it (history)
    final,       \* the list collect_all_gadgets returns
    run,         \* 1 for the first run of the tool on the input, 2 for the second
    prev,        \* the list the first run returned
    m_in,        \* matcher: the byte window and the pattern list
    m_out,       \* matcher: the result under each strategy
    log,         \* levels of the records find_gadgets has logged, in order
    sink,        \* the lines written to stdout and to the output file, and
                 \* how the output step ended
    loaded       \* the input file and what its parser returned

matchVars == <<m_in, m_out>>
vars == <<session, sections, pc, i, threads, j, gadgets, found, final, run,
          prev, m_in, m_out, log, sink, loaded>>

Strategies == {"Fast", "Complete"}

NoMatchInput == [window |-> <<>>, patterns |-> <<>>]
NoMatchOutput == [st \in Strategies |-> [done |-> FALSE, out |-> <<>>]]
NoSink == [console |-> <<>>, file |-> <<>>, created |-> FALSE, result |-> "none"]
NotLoaded ==
    [ format |-> "none", input |-> <<>>, result |-> "none", error |-> "none",
      cpu |-> "none" ]

(***************************************************************************)
(* Scheduler (session.rs:390-449) and workers (session.rs:494-505).        *)
(***************************************************************************)
\* mutant of Spawn: the spawn loop does not stop at nb_thread workers
SpawnUnbounded ==
    /\ pc = "spawn"
    /\ i < Len(sections)
    /\ threads' = Append(threads, [ section |-> i + 1, state |-> "running",
                                    walks |-> <<>>, result |-> <<>> ])
    /\ i' = i + 1
    /\ log' = Append(log, "debug")
    /\ UNCHANGED <<session, sections, pc, j, gadgets, found, final, run, prev>>
    /\ UNCHANGED <<matchVars, sink, loaded>>

\* session.rs:416-427: one iteration of the spawn loop that finds a section
Spawn ==
    /\ pc = "spawn"
    /\ Len(threads) < session.nb_thread
    /\ i < Len(sections)
    /\ threads' = Append(threads, [ section |-> i + 1, state |-> "running",
                                    walks |-> <<>>, result |-> <<>> ])
    /\ i' = i + 1
    /\ log' = Append(log, "debug")
    /\ UNCHANGED <<session, sections, pc, j, gadgets, found, final, run, prev>>
    /\ UNCHANGED <<matchVars, sink, loaded>>

\* session.rs:416-429: the spawn loop is over, the join loop starts
SpawnDone ==
    /\ pc = "spawn"
    /\ (Len(threads) >= session.nb_thread \/ i >= Len(sections))
    /\ pc' = "join"
    /\ j' = 0
    /\ UNCHANGED <<session, sections, i, threads, gadgets, found, final, run, prev>>
    /\ UNCHANGED <<matchVars, log, sink, loaded>>

\* mutant of WorkerRun: the worker itself extends the shared vector when it
\* finishes, and hands nothing to the join
WorkerRunExtends(k) ==
    /\ k \in 1..Len(threads)
    /\ threads[k].state = "running"
    /\ LET w == walks_of(session, sections[threads[k].section], X64)
       IN /\ threads' = [threads EXCEPT ![k] =
                            [ section |-> threads[k].section, state |-> "finished",
                              walks |-> w, result |-> <<>> ]]
          /\ gadgets' = gadgets \o process_section(w)
    /\ UNCHANGED <<session, sections, pc, i, j, found, final, run, prev>>
    /\ UNCHANGED <<matchVars, log, sink, loaded>>

\* session.rs:494-505: thread_worker runs process_section on its section
WorkerRun(k) ==
    /\ k \in 1..Len(threads)
    /\ threads[k].state = "running"
    /\ LET w == walks_of(session, sections[threads[k].section], X64)
       IN threads' = [threads EXCEPT ![k] =
                         [ section |-> threads[k].section, state |-> "finished",
                           walks |-> w, result |-> process_section(w) ]]
    /\ UNCHANGED <<session, sections, pc, i, j, gadgets, found, final, run, prev>>
    /\ UNCHANGED <<matchVars, log, sink, loaded>>

\* the worker panics before it returns: Capstone fails to create its handle
\* or to disassemble (engine.rs:142,153,164 `expect`), or process_section
\* returns Err (session.rs:499 `unwrap`); the thread ends with no value
WorkerPanic(k) ==
    /\ k \in 1..Len(threads)
    /\ threads[k].state = "running"
    /\ threads' = [threads EXCEPT ![k] =
                      [ section |-> threads[k].section, state |-> "panicked",
                        walks |-> <<>>, result |-> <<>> ]]
    /\ UNCHANGED <<session, sections, pc, i, j, gadgets, found, final, run, prev>>
    /\ UNCHANGED <<matchVars, log, sink, loaded>>

\* session.rs:429-441 with the extend of line 438 left out: the worker is
\* joined and its vector is dropped
JoinDrops ==
    /\ pc = "join"
    /\ j < Len(threads)
    /\ threads[j + 1].state \in {"finished", "panicked"}
    /\ log' = Append(log, "debug")
    /\ gadgets' = gadgets
    /\ j' = j + 1
    /\ UNCHANGED <<session, sections, pc, i, threads, found, final, run, prev>>
    /\ UNCHANGED <<matchVars, sink, loaded>>

\* session.rs:429-441: join the next handle of the batch (the join returns
\* when the thread has ended) and, if the join is Ok, extend the shared
\* vector with its gadgets; an Err (the thread panicked) is dropped
Join ==
    /\ pc = "join"
    /\ j < Len(threads)
    /\ threads[j + 1].state \in {"finished", "panicked"}
    /\ log' = Append(log, "debug")
    /\ gadgets' = IF threads[j + 1].state = "finished"
                  THEN gadgets \o threads[j + 1].result
                  ELSE gadgets
    /\ j' = j + 1
    /\ UNCHANGED <<session, sections, pc, i, threads, found, final, run, prev>>
    /\ UNCHANGED <<matchVars, sink, loaded>>

\* session.rs:412,441-448: the batch is joined; next batch or return
JoinDone ==
    /\ pc = "join"
    /\ j = Len(threads)
    /\ threads' = <<>>
    /\ j' = 0
    /\ pc' = IF i < Len(sections) THEN "spawn" ELSE "output"
    /\ log' = IF i < Len(sections) THEN log ELSE Append(log, "debug")
    /\ UNCHANGED <<session, sections, i, gadgets, found, final, run, prev>>
    /\ UNCHANGED <<matchVars, sink, loaded>>

\* lib.rs:55-146: after find_gadgets, dedup, sort, write to the sink and
\* return a clone of the vector; nothing is returned when the sink fails
Output ==
    /\ pc = "output"
    /\ LET v == postprocess(gadgets, session.unique_only)
       IN \E fail \in IoFailures(session.output, Len(v)) :
             LET w == write_output(session, v, fail)
             IN /\ gadgets' = v
                /\ sink' = w
                /\ final' = IF w.result = "Ok" THEN v ELSE <<>>
    /\ found' = gadgets
    /\ pc' = "done"
    /\ UNCHANGED <<session, sections, i, threads, j, run, prev>>
    /\ UNCHANGED <<matchVars, log, loaded>>

\* the tool is run a second time on the same input with the same options
Restart ==
    /\ pc = "done"
    /\ run = 1
    /\ run' = 2
    /\ prev' = final
    /\ pc' = "spawn"
    /\ i' = 0
    /\ j' = 0
    /\ threads' = <<>>
    /\ gadgets' = <<>>
    /\ found' = <<>>
    /\ final' = <<>>
    /\ log' = <<>>
    /\ sink' = NoSink
    /\ UNCHANGED <<session, sections>>
    /\ UNCHANGED <<matchVars, loaded>>

(***************************************************************************)
(* Specification of a whole run, twice, on files of MaxSections sections.  *)
(***************************************************************************)
\* raw data of the sections of the scheduler runs: 90 nop, c3 ret
SchedDatas == {<<144>>, <<195>>, <<144, 195>>, <<195, 195>>}

\* the virtual sizes a header may declare for raw data of n bytes
VirtualSizes(n) == {n - 1, n} \ {0}

\* the values of --max-insn-per-gadget the runs are configured with: 1, and
\* the default 6 (rp-rs.rs:53)
InsnLimits == {1, 6}

\* the sinks of RopGadgetOutput
Outputs == {"None", "Console", "File"}

\* the sessions of a run without output: no sink, entry point 0
Sessions(threadCounts, groups, strategies, uniques, limits) ==
    [ nb_thread : threadCounts, gadget_type : groups,
      profile_type : strategies, unique_only : uniques,
      max_insn_per_gadget : limits,
      output : {"None"}, use_color : {FALSE}, entry_point : {0} ]

\* the sessions of the output step: any sink, with and without colors, on a
\* file whose header gives entry point 0 or the first section's address
OutSessions(uniques) ==
    [ nb_thread : {1}, gadget_type : {"Ret"},
      profile_type : {"Fast"}, unique_only : uniques,
      max_insn_per_gadget : {6},
      output : Outputs, use_color : BOOLEAN,
      entry_point : {0, SectionAlignment} ]

\* the sections of a file whose k-th section holds datas[k]
sections_of(datas, vsizes) ==
    [k \in 1..Len(datas) |->
        pe_section(ImageBase, k * SectionAlignment, vsizes[k], datas[k])]

InitSched ==
    /\ pc = "spawn"
    /\ i = 0
    /\ j = 0
    /\ threads = <<>>
    /\ gadgets = <<>>
    /\ found = <<>>
    /\ final = <<>>
    /\ run = 1
    /\ prev = <<>>
    /\ m_in = NoMatchInput
    /\ m_out = NoMatchOutput
    /\ log = <<>>
    /\ sink = NoSink
    /\ loaded = NotLoaded

Init ==
    /\ session \in Sessions(1..MaxThreads, {"Ret"}, {"Fast"}, BOOLEAN, InsnLimits)
    /\ \E datas \in SeqsOf(SchedDatas, 1, MaxSections) :
       \E vsizes \in [1..Len(datas) -> 1..2] :
           /\ \A k \in 1..Len(datas) : vsizes[k] \in VirtualSizes(Len(datas[k]))
           /\ sections = sections_of(datas, vsizes)
    /\ InitSched

Next ==
    \/ Spawn
    \/ SpawnDone
    \/ \E k \in 1..MaxThreads : WorkerRun(k)
    \/ Join
    \/ JoinDone
    \/ Output
    \/ Restart

Spec == Init /\ [][Next]_vars

(***************************************************************************)
(* Specification of one run under fair scheduling of the main thread and   *)
(* of the workers, for every thread count the command line accepts         *)
(* (session.rs:157-161 parses any u32, 0 included).                        *)
(***************************************************************************)
InitLive ==
    /\ session \in Sessions(0..MaxThreads, {"Ret"}, {"Fast"}, {FALSE}, {6})
    /\ \E datas \in SeqsOf(SchedDatas, 1, MaxSections) :
           sections = sections_of(datas, [k \in 1..Len(datas) |-> Len(datas[k])])
    /\ InitSched

NextLive ==
    \/ Spawn
    \/ SpawnDone
    \/ \E k \in 1..MaxThreads : WorkerRun(k)
    \/ Join
    \/ JoinDone
    \/ Output

\* the k-th worker of the batch is spawned and has not returned
WorkerRunning(k) == k \in 1..Len(threads) /\ threads[k].state = "running"

\* the main thread is never suspended for ever, and a spawned OS thread runs
\* to its end.  WorkerRun(k) is enabled exactly when WorkerRunning(k) holds
\* and leaves it false, so WF_vars(WorkerRun(k)) is []<>~WorkerRunning(k)
SpecLive ==
    /\ InitLive
    /\ [][NextLive]_vars
    /\ WF_vars(Spawn)
    /\ WF_vars(SpawnDone)
    /\ WF_vars(Join)
    /\ WF_vars(JoinDone)
    /\ WF_vars(Output)
    /\ \A k \in 1..MaxThreads : []<>~WorkerRunning(k)

(***************************************************************************)
(* Specification of one run in which any worker may panic.                 *)
(***************************************************************************)
InitPanic ==
    /\ session \in Sessions(1..MaxThreads, {"Ret"}, {"Fast"}, {FALSE}, {6})
    /\ \E datas \in SeqsOf(SchedDatas, 1, MaxSections) :
           sections = sections_of(datas, [k \in 1..Len(datas) |-> Len(datas[k])])
    /\ InitSched

NextPanic ==
    \/ Spawn
    \/ SpawnDone
    \/ \E k \in 1..MaxThreads : WorkerRun(k)
    \/ \E k \in 1..MaxThreads : WorkerPanic(k)
    \/ Join
    \/ JoinDone
    \/ Output

SpecPanic == InitPanic /\ [][NextPanic]_vars

(***************************************************************************)
(* Specification of the walk over one section of arbitrary bytes.          *)
(***************************************************************************)
InitWalk ==
    /\ session \in Sessions({1}, {"Ret", "Jump"}, Strategies, {FALSE}, {6})
    /\ \E data \in SeqsOf(SectionBytes, 1, MaxLen) :
           sections = sections_of(<<data>>, <<Len(data)>>)
    /\ InitSched

NextWalk ==
    \/ Spawn
    \/ SpawnDone
    \/ \E k \in 1..MaxThreads : WorkerRun(k)
    \/ Join
    \/ JoinDone
    \/ Output

SpecWalk == InitWalk /\ [][NextWalk]_vars

(***************************************************************************)
(* Specification of the output pipeline on an arbitrary vector of gadgets: *)
(* the texts come from the disassembler and the order from the workers.    *)
(***************************************************************************)
\* a one- or two-instruction gadget at address a whose terminator is
\* rendered mn
out_gadget(lead, mn, a) ==
    LET ret == [ raw |-> <<195>>, size |-> 1, mnemonic |-> mn,
                 operands |-> <<>>, address |-> a + Len(lead), group |-> "Ret" ]
        nop == [ raw |-> <<144>>, size |-> 1, mnemonic |-> StrNop,
                 operands |-> <<>>, address |-> a, group |-> "Undefined" ]
    IN Gadget_new((IF lead = <<>> THEN <<>> ELSE <<nop>>) \o <<ret>>)

OutAddresses == {ImageBase, ImageBase + SectionAlignment}

OutGadgets ==
    { out_gadget(<<>>, StrRet, a) : a \in OutAddresses } \cup
    { out_gadget(<<>>, StrRETUp, a) : a \in OutAddresses } \cup
    { out_gadget(<<144>>, StrRet, a) : a \in OutAddresses }

InitOut ==
    /\ session \in OutSessions(BOOLEAN)
    /\ sections = <<>>
    /\ pc = "output"
    /\ i = 0
    /\ j = 0
    /\ threads = <<>>
    /\ gadgets \in SeqsOf(OutGadgets, 0, MaxGadgets)
    /\ found = <<>>
    /\ final = <<>>
    /\ run = 1
    /\ prev = <<>>
    /\ m_in = NoMatchInput
    /\ m_out = NoMatchOutput
    /\ log = <<>>
    /\ sink = NoSink
    /\ loaded = NotLoaded

NextOut == Output

SpecOut == InitOut /\ [][NextOut]_vars

(***************************************************************************)
(* Specification of the matcher on arbitrary windows and pattern lists.    *)
(***************************************************************************)
\* the bytes of a window
MatchBytes == {1, 3}
\* the (opcode byte, mask byte) pairs of a pattern
MatchPairs == {<<0, 0>>, <<1, 1>>, <<3, 3>>}

\* the patterns: opcode and mask of the same length 1..MaxPatLen
MatchPatterns ==
    { <<[k \in 1..Len(p) |-> p[k][1]], [k \in 1..Len(p) |-> p[k][2]]>> :
        p \in SeqsOf(MatchPairs, 1, MaxPatLen) }

\* lists of one or two patterns
MatchPatternLists ==
    { <<p>> : p \in MatchPatterns } \cup
    { <<p, q>> : p \in MatchPatterns, q \in MatchPatterns }

\* gadget.rs:144-190: the matcher is applied under strategy st
Match(st) ==
    /\ pc = "match"
    /\ ~m_out[st].done
    /\ m_out' = [m_out EXCEPT ![st] =
                    [ done |-> TRUE,
                      out  |-> collect_previous_instructions(st, m_in.patterns,
                                                             m_in.window) ]]
    /\ UNCHANGED <<session, sections, pc, i, threads, j, gadgets, found, final,
                   run, prev, m_in, log, sink, loaded>>

InitMatch ==
    /\ session \in Sessions({1}, {"Ret"}, {"Fast"}, {FALSE}, {6})
    /\ sections = <<>>
    /\ pc = "match"
    /\ i = 0
    /\ j = 0
    /\ threads = <<>>
    /\ gadgets = <<>>
    /\ found = <<>>
    /\ final = <<>>
    /\ run = 1
    /\ prev = <<>>
    /\ m_in \in [ window : SeqsOf(MatchBytes, 0, MaxWindow),
                  patterns : MatchPatternLists ]
    /\ m_out = NoMatchOutput
    /\ log = <<>>
    /\ sink = NoSink
    /\ loaded = NotLoaded

NextMatch == \E st \in Strategies : Match(st)

SpecMatch == InitMatch /\ [][NextMatch]_vars

(***************************************************************************)
(* Specification of the matcher on the pattern lists of the CPU profiles,  *)
(* each applied to the byte sequences its own patterns describe.           *)
(***************************************************************************)
\* the bytes pattern p describes when every bit outside the mask is fill
shaped_window(p, fill) ==
    [k \in 1..Len(p[1]) |->
        BitAnd(p[1][k], p[2][k]) + BitAnd(fill, 255 - p[2][k])]

InitTable ==
    /\ session \in Sessions({1}, {"Ret"}, {"Fast"}, {FALSE}, {6})
    /\ sections = <<>>
    /\ pc = "match"
    /\ i = 0
    /\ j = 0
    /\ threads = <<>>
    /\ gadgets = <<>>
    /\ found = <<>>
    /\ final = <<>>
    /\ run = 1
    /\ prev = <<>>
    /\ \E cpu \in CpuProfiles : \E group \in {"Ret", "Call", "Jump"} :
       \E n \in 1..Len(patterns_of(group, cpu)) : \E fill \in {0, 255} :
           m_in = [ window   |-> shaped_window(patterns_of(group, cpu)[n], fill),
                    patterns |-> patterns_of(group, cpu) ]
    /\ m_out = NoMatchOutput
    /\ log = <<>>
    /\ sink = NoSink
    /\ loaded = NotLoaded

SpecTable == InitTable /\ [][NextMatch]_vars

(***************************************************************************)
(* Loading (format/mod.rs, format/pe.rs, format/elf.rs, format/mach.rs,    *)
(* section.rs): the input becomes the list of sections handed to the scan. *)
(***************************************************************************)
Zeros(n) == [k \in 1..n |-> 0]
LE16(n) == <<n % 256, n \div 256>>
LE32(n) == <<n % 256, (n \div 256) % 256, (n \div 65536) % 256, n \div 16777216>>

\* a machine tag no CPU type stands for (IMAGE_FILE_MACHINE_ARM, 0x01c0)
IMAGE_FILE_MACHINE_OTHER == 448
PeMachines == { IMAGE_FILE_MACHINE_I386, IMAGE_FILE_MACHINE_X86_64,
                IMAGE_FILE_MACHINE_ARM64, IMAGE_FILE_MACHINE_OTHER }

\* layout of the images: ImageDosHeader, ImageFileHeader, optional header,
\* section table, raw data
DOS_HEADER_SIZE == 64
OPTIONAL_HEADER_SIZE == 32
PeTableOffset == DOS_HEADER_SIZE + IMAGE_NT_HEADER_SIZE + OPTIONAL_HEADER_SIZE

\* section name ".s<k>", padded with NUL to 8 bytes
SectionName(k) == <<46, 115, 48 + k, 0, 0, 0, 0, 0>>

RECURSIVE RawOffset(_, _)
\* file offset of the raw data of section k (1-based) of secs
RawOffset(secs, k) ==
    IF k = 1 THEN PeTableOffset + IMAGE_SECTION_HEADER_SIZE * Len(secs)
    ELSE RawOffset(secs, k - 1) + Len(secs[k - 1].data)

\* ImageSectionHeader of section k
PeSectionHeader(secs, k) ==
    SectionName(k) \o LE32(secs[k].virtual_size)
    \o LE32(SectionAlignment * k)
    \o LE32(Len(secs[k].data)) \o LE32(RawOffset(secs, k)) \o Zeros(12)
    \o <<0, 0, 0, secs[k].top>>

\* a well-formed PE image for the machine tag, with one section per element
\* of secs ([top |-> most significant byte of the characteristics, data,
\* virtual_size])
MkPe(machine, secs) ==
    IMAGE_DOS_SIGNATURE \o Zeros(OFFSET_E_LFANEW - 2) \o LE32(DOS_HEADER_SIZE)
    \o IMAGE_NT_SIGNATURE \o LE16(machine) \o LE16(Len(secs)) \o Zeros(12)
    \o LE16(OPTIONAL_HEADER_SIZE) \o Zeros(2)
    \o Zeros(16) \o LE32(SectionAlignment) \o Zeros(4)
    \o (IF machine = IMAGE_FILE_MACHINE_I386
        THEN Zeros(4) \o LE32(ImageBase) ELSE LE32(ImageBase) \o Zeros(4))
    \o Flatten([k \in 1..Len(secs) |-> PeSectionHeader(secs, k)])
    \o Flatten([k \in 1..Len(secs) |-> secs[k].data])

PeSectionDatas == { <<195>>, <<144, 195>> }

\* the sections of the images: the virtual size a header declares is the
\* size of the raw data, or one byte less (raw data padded to the file
\* alignment)
PeSectionKinds ==
    { [top |-> top, data |-> data, virtual_size |-> Len(data)] :
         top \in { SCN_BYTE_READ + SCN_BYTE_EXECUTE,
                   SCN_BYTE_READ + SCN_BYTE_WRITE,
                   SCN_BYTE_READ, SCN_BYTE_EXECUTE },
         data \in PeSectionDatas }
    \cup { [top |-> SCN_BYTE_READ + SCN_BYTE_EXECUTE, data |-> <<144, 195>>,
            virtual_size |-> 1] }

PeImages ==
    { MkPe(machine, secs) : machine \in PeMachines,
                            secs \in SeqsOf(PeSectionKinds, 0, MaxSections) }

\* the image of MaxSections executable sections, for each machine tag
FullImage(machine) ==
    MkPe(machine, [k \in 1..MaxSections |->
                     [top |-> SCN_BYTE_READ + SCN_BYTE_EXECUTE,
                      data |-> <<144, 195>>, virtual_size |-> 2]])

\* files that are no PE image: the empty file, files shorter than a magic,
\* an ELF magic, and every truncation of a well-formed image
PeInputs ==
    PeImages
    \cup { <<>>, <<77>>, <<77, 90>>, <<127, 69, 76, 70>> }
    \cup { SubSeq(FullImage(machine), 1, n) :
              machine \in PeMachines, n \in 0..Len(FullImage(IMAGE_FILE_MACHINE_I386)) }

\* format/mod.rs:71-79: ExecutableFileFormat::cpu
ExecutableFileFormat_cpu(cpu_type) ==
    CASE cpu_type = "X86"   -> "X86"
      [] cpu_type = "X64"   -> "X64"
      [] cpu_type = "ARM"   -> "Arm64"
      [] cpu_type = "ARM64" -> "Arm"
      [] OTHER              -> "Panic"

\* FileFormat::parse on the bytes of the file, then cpu() on the parsed image
LoadPe ==
    /\ pc = "load"
    /\ loaded.format = "Pe"
    /\ LET r   == FileFormat_parse(loaded.input)
           cpu == IF r.kind = "Ok" THEN ExecutableFileFormat_cpu(r.val.cpu_type)
                  ELSE "none"
       IN /\ loaded' = [loaded EXCEPT
                           !.result = IF cpu = "Panic" THEN "Panic" ELSE r.kind,
                           !.error  = r.error,
                           !.cpu    = cpu]
          /\ sections' = IF r.kind = "Ok" THEN r.val.sections ELSE <<>>
          /\ pc' = CASE r.kind = "Ok" /\ cpu # "Panic" -> "loaded"
                     [] r.kind = "Err"                 -> "failed"
                     [] OTHER                          -> "panicked"
    /\ UNCHANGED <<session, i, threads, j, gadgets, found, final, run, prev>>
    /\ UNCHANGED <<matchVars, log, sink>>

\* goblin SectionHeader::is_executable, is_writable: sh_flags as the set of
\* the SHF_* flags that are set
Elf_is_executable(header) == {"ALLOC", "EXECINSTR"} \subseteq header.sh_flags
Elf_is_writable(header) == {"ALLOC", "WRITE"} \subseteq header.sh_flags

\* section.rs:106-128: impl From<&SectionHeader> for Section (the name is
\* set by Elf::new, elf.rs:228-229)
Section_from_elf(header) ==
    [ start_address |-> header.sh_addr,
      end_address   |-> header.sh_addr + header.sh_size,
      name          |-> header.name,
      permission    |->
          (IF Elf_is_executable(header) THEN {"READABLE", "EXECUTABLE"} ELSE {})
          \cup (IF Elf_is_writable(header) THEN {"READABLE", "WRITABLE"} ELSE {}),
      data          |-> Zeros(header.sh_size) ]

RECURSIVE Elf_sections(_, _)
\* elf.rs:217-260: the loop of Elf::new over the section headers; read_exact
\* at sh_addr panics when the file ends before the section does
Elf_sections(headers, file) ==
    IF headers = <<>> THEN ParseOk(<<>>)
    ELSE LET current_section == Head(headers)
             sect == Section_from_elf(current_section)
         IN IF "EXECUTABLE" \notin sect.permission
            THEN Elf_sections(Tail(headers), file)
            ELSE IF ~InRange(file, current_section.sh_addr,
                             current_section.sh_addr + current_section.sh_size)
            THEN ParsePanic
            ELSE LET rest == Elf_sections(Tail(headers), file)
                 IN IF rest.kind # "Ok" THEN rest
                    ELSE ParseOk(<<[sect EXCEPT !.data =
                                      Slice(file, current_section.sh_addr,
                                            current_section.sh_addr
                                            + current_section.sh_size)]>>
                                 \o rest.val)

\* section.rs:130-155: impl From<&Segment> for Section; flags as the set of
\* the S_ATTR_* attributes that are set
Section_from_mach(segment) ==
    [ start_address |-> segment.vmaddr,
      end_address   |-> segment.vmaddr + segment.vmsize,
      name          |-> segment.segname,
      permission    |->
          {"READABLE"} \cup
          (IF \/ "S_ATTR_PURE_INSTRUCTIONS" \notin segment.flags
              \/ "S_ATTR_SOME_INSTRUCTIONS" \notin segment.flags
           THEN {"EXECUTABLE"} ELSE {}),
      data          |-> Zeros(segment.vmsize) ]

\* mach.rs:59-91: the loop of Mach::new over the segments
Mach_sections(segments) ==
    filter_executable([k \in 1..Len(segments) |->
        [Section_from_mach(segments[k]) EXCEPT !.data = segments[k].data]])

ElfFile == <<144, 195, 144, 195>>
ElfHeaderKinds == [ sh_flags : SUBSET {"ALLOC", "EXECINSTR", "WRITE"},
                    sh_size  : {1, Len(ElfFile)} ]
\* section header tables of up to MaxSections headers, header k at offset k-1
ElfInputs ==
    { [k \in 1..Len(kinds) |->
          [ name |-> SectionName(k), sh_flags |-> kinds[k].sh_flags,
            sh_addr |-> k - 1, sh_size |-> kinds[k].sh_size ]] :
      kinds \in SeqsOf(ElfHeaderKinds, 0, MaxSections) }

MachSegmentKinds ==
    [ flags : SUBSET {"S_ATTR_PURE_INSTRUCTIONS", "S_ATTR_SOME_INSTRUCTIONS"},
      data  : { <<195>>, <<144, 195>> } ]
MachInputs ==
    { [k \in 1..Len(kinds) |->
          [ segname |-> SectionName(k), flags |-> kinds[k].flags,
            vmaddr |-> ImageBase + SectionAlignment * k,
            vmsize |-> Len(kinds[k].data), data |-> kinds[k].data ]] :
      kinds \in SeqsOf(MachSegmentKinds, 0, MaxSections) }

\* Elf::new on the section headers goblin parsed from the file
LoadElf ==
    /\ pc = "load"
    /\ loaded.format = "Elf"
    /\ LET r == Elf_sections(loaded.input, ElfFile)
       IN /\ loaded' = [loaded EXCEPT !.result = r.kind, !.error = r.error]
          /\ sections' = r.val
          /\ pc' = IF r.kind = "Ok" THEN "loaded" ELSE "panicked"
    /\ UNCHANGED <<session, i, threads, j, gadgets, found, final, run, prev>>
    /\ UNCHANGED <<matchVars, log, sink>>

\* Mach::new on the segments goblin parsed from the file
LoadMach ==
    /\ pc = "load"
    /\ loaded.format = "MachO"
    /\ loaded' = [loaded EXCEPT !.result = "Ok"]
    /\ sections' = Mach_sections(loaded.input)
    /\ pc' = "loaded"
    /\ UNCHANGED <<session, i, threads, j, gadgets, found, final, run, prev>>
    /\ UNCHANGED <<matchVars, log, sink>>

InitLoad ==
    /\ session \in Sessions({1}, {"Ret"}, {"Fast"}, {FALSE}, {6})
    /\ sections = <<>>
    /\ pc = "load"
    /\ i = 0
    /\ j = 0
    /\ threads = <<>>
    /\ gadgets = <<>>
    /\ found = <<>>
    /\ final = <<>>
    /\ run = 1
    /\ prev = <<>>
    /\ m_in = NoMatchInput
    /\ m_out = NoMatchOutput
    /\ log = <<>>
    /\ sink = NoSink
    /\ \E format \in {"Pe", "Elf", "MachO"} :
       \E input \in (CASE format = "Pe"  -> PeInputs
                       [] format = "Elf" -> ElfInputs
                       [] OTHER          -> MachInputs) :
           loaded = [NotLoaded EXCEPT !.format = format, !.input = input]

NextLoad == LoadPe \/ LoadElf \/ LoadMach

SpecLoad == InitLoad /\ [][NextLoad]_vars

(***************************************************************************)
(* Specification of the walk under each instruction stride: the profile is *)
(* the one cpu() returned for the loaded file.                             *)
(***************************************************************************)
\* bytes before the first instruction word of an ARM section
MaxPad == 3
\* instruction words of an ARM section
MaxWords == 5

\* the profile a name of cpu() stands for
ProfileOf(name) ==
    CASE name = "X86"   -> X86
      [] name = "X64"   -> X64
      [] name = "Arm"   -> Arm
      [] name = "Arm64" -> Arm64

\* section data of an ARM file: 0..MaxPad undefined bytes, then up to
\* MaxWords words, each RET or NOP
ArmDatas ==
    { Zeros(pad) \o Flatten(words) :
        pad \in 0..MaxPad,
        words \in SeqsOf({ArmWordRet, ArmWordNop}, 1, MaxWords) }

\* session.rs:494-505: thread_worker with the profile of the loaded file
WorkerRunCpu(k) ==
    /\ k \in 1..Len(threads)
    /\ threads[k].state = "running"
    /\ LET w == walks_of(session, sections[threads[k].section],
                         ProfileOf(loaded.cpu))
       IN threads' = [threads EXCEPT ![k] =
                         [ section |-> threads[k].section, state |-> "finished",
                           walks |-> w, result |-> process_section(w) ]]
    /\ UNCHANGED <<session, sections, pc, i, j, gadgets, found, final, run, prev>>
    /\ UNCHANGED <<matchVars, log, sink, loaded>>

InitStride ==
    /\ session \in Sessions({1}, {"Ret"}, {"Fast"}, {FALSE}, {6})
    /\ \E cpu \in {"X64", "Arm", "Arm64"} :
       \E data \in (IF cpu = "X64" THEN SeqsOf(SectionBytes, 1, MaxLen)
                    ELSE ArmDatas) :
           /\ loaded = [NotLoaded EXCEPT !.cpu = cpu, !.result = "Ok"]
           /\ sections = sections_of(<<data>>, <<Len(data)>>)
    /\ pc = "spawn"
    /\ i = 0
    /\ j = 0
    /\ threads = <<>>
    /\ gadgets = <<>>
    /\ found = <<>>
    /\ final = <<>>
    /\ run = 1
    /\ prev = <<>>
    /\ m_in = NoMatchInput
    /\ m_out = NoMatchOutput
    /\ log = <<>>
    /\ sink = NoSink

NextStride ==
    \/ Spawn
    \/ SpawnDone
    \/ \E k \in 1..MaxThreads : WorkerRunCpu(k)
    \/ Join
    \/ JoinDone
    \/ Output

SpecStride == InitStride /\ [][NextStride]_vars

(***************************************************************************)
(* Vocabulary of the properties.                                           *)
(***************************************************************************)
SeqRange(q) == { q[k] : k \in 1..Len(q) }

\* the walks of the workers of the current batch: <<thread, walk>>
Walks == { <<k, w>> \in (1..Len(threads)) \X (1..(MaxLen + MaxRewind)) :
             w <= Len(threads[k].walks) }

WalkOf(kw) == threads[kw[1]].walks[kw[2]]
SectionOf(kw) == sections[threads[kw[1]].section]

\* every gadget a walk returned, a worker holds, or a list of the run holds
WalkerGadgets == UNION { SeqRange(WalkOf(kw).res.gadgets) : kw \in Walks }
Emitted ==
    WalkerGadgets \cup SeqRange(gadgets) \cup SeqRange(final)
    \cup UNION { SeqRange(threads[k].result) : k \in 1..Len(threads) }

Disqualifying == {"Jump", "Call", "Ret", "Int", "Iret", "Privileged"}

(***************************************************************************)
(* The matcher on a section read from a cursor: one section, every cursor  *)
(* inside it, both strategies.                                             *)
(***************************************************************************)
\* gadget.rs:192-220: get_all_valid_positions_and_length(session, cpu,
\* section, cursor) is called and its result kept
MatchCursor ==
    /\ pc = "match"
    /\ ~m_out[session.profile_type].done
    /\ m_out' = [m_out EXCEPT ![session.profile_type] =
                    [ done |-> TRUE,
                      out  |-> get_all_valid_positions_and_length(
                                   session, X64, sections[1], m_in.cursor) ]]
    /\ UNCHANGED <<session, sections, pc, i, threads, j, gadgets, found, final,
                   run, prev, m_in, log, sink, loaded>>

InitCursor ==
    /\ session \in Sessions({1}, {"Ret", "Jump"}, Strategies, {FALSE}, {6})
    /\ \E data \in SeqsOf(SectionBytes, 1, MaxLen) :
           /\ sections = sections_of(<<data>>, <<Len(data)>>)
           /\ \E cursor \in 0..Len(data) :
                 m_in = [ window   |-> data,
                          patterns |-> patterns_of(session.gadget_type, X64),
                          cursor   |-> cursor ]
    /\ pc = "match"
    /\ i = 0
    /\ j = 0
    /\ threads = <<>>
    /\ gadgets = <<>>
    /\ found = <<>>
    /\ final = <<>>
    /\ run = 1
    /\ prev = <<>>
    /\ m_out = NoMatchOutput
    /\ log = <<>>
    /\ sink = NoSink
    /\ loaded = NotLoaded

NextCursor == MatchCursor

SpecCursor == InitCursor /\ [][NextCursor]_vars

(***************************************************************************)
(* C1 - terminator.                                                        *)
(***************************************************************************)
\* C1: the last instruction of every gadget the walker emits, and so of
\* every gadget of the returned list, has the requested terminator group.
C1_Terminator ==
    \A g \in Emitted : Last(g.insns).group = session.gadget_type

\* a run has returned a gadget, and a walk of it decoded a slice that ends
\* in another group (jmp rel8 swallowing the ret) without emitting it
C1_Witness ==
    /\ pc = "done"
    /\ final # <<>>
    /\ session.gadget_type = "Ret"
    /\ \E p \in 1..(Len(sections[1].data) - 1) :
          /\ sections[1].data[p] = 235
          /\ sections[1].data[p + 1] = 195

C3_Dedup ==
    (pc = "done" /\ session.unique_only) =>
        \A a \in 1..Len(final) : \A b \in 1..Len(final) :
            a # b => ~eq_ignore_ascii_case(Gadget_text(final[a]),
                                           Gadget_text(final[b]))

(***************************************************************************)
(* C4 - ordering.                                                          *)
(***************************************************************************)
\* C4: the returned list is non-decreasing in address, with or without
\* unique_only and whatever the order of the shared vector was (the dedup
\* runs before the address sort).
C4_Ordering ==
    pc = "done" =>
        \A a \in 1..Len(final) : \A b \in 1..Len(final) :
            a < b => final[a].address <= final[b].address

\* unique_only removed a duplicate from a vector that was not in address
\* order, and two gadgets or more are returned
C4_Witness ==
    /\ pc = "done"
    /\ session.unique_only
    /\ Len(final) >= 2
    /\ Len(final) < Len(found)
    /\ \E a \in 1..(Len(found) - 1) : found[a].address > found[a + 1].address

(***************************************************************************)
(* C5 - bounded rewind.                                                    *)
(***************************************************************************)
\* C5: a gadget emitted for the candidate terminator at offset pos starts at
\* or after base_va + pos - max_rewind_size, clamped at base_va.
C5_BoundedRewind ==
    \A kw \in Walks :
        \A g \in SeqRange(WalkOf(kw).res.gadgets) :
            g.address >= SectionOf(kw).start_address
                         + (IF WalkOf(kw).pos >= X64.max_rewind_size
                            THEN WalkOf(kw).pos - X64.max_rewind_size ELSE 0)

\* a terminator further than the rewind window from the section start, with
\* a gadget that starts exactly at the window start
C5_Witness ==
    \E kw \in Walks :
        /\ WalkOf(kw).pos > X64.max_rewind_size
        /\ \E g \in SeqRange(WalkOf(kw).res.gadgets) :
              g.address = SectionOf(kw).start_address + WalkOf(kw).pos
                          - X64.max_rewind_size

(***************************************************************************)
(* C6 - contiguity.                                                        *)
(***************************************************************************)
RECURSIVE LenSum(_)
LenSum(insns) ==
    IF insns = <<>> THEN 0 ELSE LenSum(Tail(insns)) + Len(Head(insns).raw)

\* C6: the size of an emitted gadget is the sum of its instructions' sizes
\* and the length of its raw bytes, its raw bytes are the instructions' raw
\* bytes in order, and consecutive instructions are adjacent in memory.
C6_Contiguity ==
    \A g \in Emitted :
        /\ g.size = Len(g.raw)
        /\ g.size = LenSum(g.insns)
        /\ \A k \in 1..Len(g.insns) : g.insns[k].size = Len(g.insns[k].raw)
        /\ \A k \in 1..(Len(g.insns) - 1) :
              g.insns[k + 1].address = g.insns[k].address + g.insns[k].size
        /\ \A k \in 1..Len(g.insns) :
              \A b \in 1..Len(g.insns[k].raw) :
                  /\ g.insns[k].address - g.address + b \in 1..Len(g.raw)
                  /\ g.raw[g.insns[k].address - g.address + b] = g.insns[k].raw[b]

\* a returned gadget of two instructions or more cut out of a longer decoded
\* sequence: it starts right after a ret or a jmp
C6_Witness ==
    /\ pc = "done"
    /\ \E g \in SeqRange(final) :
          /\ Len(g.insns) >= 2
          /\ g.address > sections[1].start_address + 1
          /\ sections[1].data[g.address - sections[1].start_address] \in {195, 203}

(***************************************************************************)
(* C7 - address.                                                           *)
(***************************************************************************)
\* C7: every gadget of the returned list has at least one instruction, its
\* address is the address of its first instruction, and that address lies in
\* [start_address, end_address) of one of the executable sections.
C7_Address ==
    \A g \in SeqRange(final) :
        /\ g.insns # <<>>
        /\ g.address = g.insns[1].address
        /\ \E k \in 1..Len(sections) :
              /\ sections[k].start_address <= g.address
              /\ g.address < sections[k].end_address

(***************************************************************************)
(* C8 - idempotence.                                                       *)
(***************************************************************************)
\* C8: a second run on the same sections with the same options returns the
\* list the first run returned, whatever the interleaving of the workers.
C8_Idempotent == (run = 2 /\ pc = "done") => final = prev

\* both runs are over; two workers of a batch ran concurrently and
\* unique_only removed one of two equal texts found in different sections
C8_Witness ==
    /\ run = 2
    /\ pc = "done"
    /\ session.nb_thread >= 2
    /\ Len(sections) >= 2
    /\ session.unique_only
    /\ final # <<>>
    /\ Len(final) < Len(found)

(***************************************************************************)
(* C9, C10 - the matcher, against a declarative statement of a match.      *)
(***************************************************************************)
\* the set bits of a byte
Bits(x) == { b \in 0..7 : (x \div (2 ^ b)) % 2 = 1 }

\* pattern p = <<opcode, mask>> matches window w at offset k
MatchesAt(w, p, k) ==
    /\ k + Len(p[1]) <= Len(w)
    /\ \A n \in 1..Len(p[1]) : Bits(w[k + n]) \cap Bits(p[2][n]) = Bits(p[1][n])

RECURSIVE Ascending(_)
Ascending(S) ==
    IF S = {} THEN <<>>
    ELSE LET m == CHOOSE x \in S : \A y \in S : x <= y
         IN <<m>> \o Ascending(S \ {m})

\* the matches of one pattern: every matching offset once, ascending
MatchesOf(w, p) ==
    LET offs == Ascending({ k \in 0..Len(w) : MatchesAt(w, p, k) })
    IN [n \in 1..Len(offs) |-> <<offs[n], Len(p[1])>>]

IsPrefix(a, b) == Len(a) <= Len(b) /\ SubSeq(b, 1, Len(a)) = a

\* C9: every reported (k, n) is an offset where a declared pattern of length
\* n matches under its mask (so a pattern longer than the window reports
\* nothing), and the exhaustive result is, pattern after pattern in
\* declaration order, every matching offset of the pattern in ascending
\* order, overlapping and duplicate matches included.
C9_Matcher ==
    /\ \A st \in Strategies :
          m_out[st].done =>
              \A e \in SeqRange(m_out[st].out) :
                  /\ e[2] <= Len(m_in.window)
                  /\ \E p \in SeqRange(m_in.patterns) :
                        e[2] = Len(p[1]) /\ MatchesAt(m_in.window, p, e[1])
    /\ m_out["Complete"].done =>
          m_out["Complete"].out =
              Flatten([n \in 1..Len(m_in.patterns) |->
                          MatchesOf(m_in.window, m_in.patterns[n])])

\* the exhaustive result holds two overlapping matches of a two-byte pattern
\* and the same (offset, length) twice, reported by two patterns
C9_Witness ==
    /\ m_out["Complete"].done
    /\ LET out == m_out["Complete"].out
       IN /\ \E a \in 1..Len(out) : \E b \in 1..Len(out) :
                a < b /\ out[a] = out[b]
          /\ \E a \in 1..(Len(out) - 1) :
                out[a][2] = 2 /\ out[a + 1] = <<out[a][1] + 1, 2>>

\* the first declared pattern with a match, 0 if there is none
FirstMatching(w, patterns) ==
    IF \E n \in 1..Len(patterns) : MatchesOf(w, patterns[n]) # <<>>
    THEN CHOOSE n \in 1..Len(patterns) :
             /\ MatchesOf(w, patterns[n]) # <<>>
             /\ \A q \in 1..(n - 1) : MatchesOf(w, patterns[q]) = <<>>
    ELSE 0

C11_MaxInsns ==
    \A g \in SeqRange(final) : Len(g.insns) <= session.max_insn_per_gadget

(***************************************************************************)
(* C12 - the scheduler completes.                                          *)
(***************************************************************************)
\* C12: for every list of sections and every configured thread count, the
\* scheduler eventually returns with every spawned worker joined (the batch
\* is empty again and every section was handed to a worker).
C12_Completes ==
    <>(pc \in {"output", "done"} /\ threads = <<>> /\ i = Len(sections))

(***************************************************************************)
(* C13 - a panicking worker.                                               *)
(***************************************************************************)
\* C13: when a worker of a batch has panicked, the scheduler joins every
\* worker of the batch all the same, the gadgets of every worker that
\* returned are in the shared vector, and the failure is logged as a warning.
C13_PanicTolerated ==
    (/\ pc = "join"
     /\ j = Len(threads)
     /\ \E k \in 1..Len(threads) : threads[k].state = "panicked") =>
        /\ \A k \in 1..Len(threads) :
              threads[k].state = "finished" =>
                  SeqRange(threads[k].result) \subseteq SeqRange(gadgets)
        /\ "warn" \in SeqRange(log)

(***************************************************************************)
(* C14 - the lines of the file sink.                                       *)
(***************************************************************************)
IsHexChar(c) == c \in (48..57) \cup (97..102)
HexValue(c) == IF c <= 57 THEN c - 48 ELSE c - 87

RECURSIVE ParseHex(_, _)
\* the value of the leading hexadecimal digits of str
ParseHex(str, acc) ==
    IF str = <<>> \/ ~IsHexChar(Head(str)) THEN acc
    ELSE ParseHex(Tail(str), 16 * acc + HexValue(Head(str)))

\* the address a line starts with, after its "0x"
LineAddress(line) == ParseHex(SubSeq(line, 3, Len(line)), 0)

\* the text of a line: what follows its first " | "
LineText(line) ==
    LET bar == CHOOSE p \in 1..Len(line) :
                   /\ SubSeq(line, p, p + 2) = StrBar
                   /\ \A q \in 1..(p - 1) : SubSeq(line, q, q + 2) # StrBar
    IN SubSeq(line, bar + 3, Len(line))

\* C14: the file holds one line per gadget of the returned list, in its
\* order; the address of a line is the gadget's address and its text is the
\* uncolored text of the gadget, whatever use_color is.
C14_FileSink ==
    (pc = "done" /\ session.output = "File" /\ sink.result = "Ok") =>
        /\ Len(sink.file) = Len(final)
        /\ \A n \in 1..Len(final) :
              /\ SubSeq(sink.file[n], 1, 2) = StrHexPrefix
              /\ LineAddress(sink.file[n]) = final[n].address
              /\ LineText(sink.file[n]) = Gadget_text(final[n]) \o StrNewline

(***************************************************************************)
(* C15 - the pattern tables.                                               *)
(***************************************************************************)
\* C15: every (opcode, mask) pattern of a profile's lists has an opcode and
\* a mask of the same length, and no opcode bit set outside the mask.
C15_WellFormed ==
    \A p \in SeqRange(m_in.patterns) :
        /\ Len(p[1]) = Len(p[2])
        /\ \A n \in 1..Len(p[1]) : BitAnd(p[1][n], 255 - p[2][n]) = 0

(***************************************************************************)
(* C16 - loading reports bad input as an error value.                      *)
(***************************************************************************)
\* C16: loading an input never panics: a buffer that is too short, has an
\* unrecognised magic, a malformed header or a machine tag with no CPU
\* profile ends in a classified error value, never in an abort.
C16_NoPanic ==
    loaded.format = "Pe" => /\ pc # "panicked"
                            /\ loaded.result # "Panic"
                            /\ (pc = "failed" => loaded.error # "none")

(***************************************************************************)
(* C17 - only executable sections enter the pipeline.                      *)
(***************************************************************************)
\* the headers of a loaded input, each with its name and whether the header
\* marks the section executable: IMAGE_SCN_MEM_EXECUTE in a PE section
\* header, SHF_EXECINSTR in an ELF section header, an instruction attribute
\* in a Mach-O segment
PeHeaderOffset(k) == PeTableOffset + IMAGE_SECTION_HEADER_SIZE * (k - 1)
HeadersOf(ld) ==
    CASE ld.format = "Pe" ->
           [k \in 1..le16(ld.input, DOS_HEADER_SIZE + 6) |->
              [ name   |-> Slice(ld.input, PeHeaderOffset(k), PeHeaderOffset(k) + 8),
                marked |-> BitAnd(ld.input[PeHeaderOffset(k) + IMAGE_SECTION_HEADER_SIZE],
                                  SCN_BYTE_EXECUTE) # 0 ]]
      [] ld.format = "Elf" ->
           [k \in 1..Len(ld.input) |->
              [ name   |-> ld.input[k].name,
                marked |-> "EXECINSTR" \in ld.input[k].sh_flags ]]
      [] OTHER ->
           [k \in 1..Len(ld.input) |->
              [ name   |-> ld.input[k].segname,
                marked |-> ld.input[k].flags # {} ]]

OnlyExecutable(ld, secs) ==
    /\ \A n \in 1..Len(secs) : "EXECUTABLE" \in secs[n].permission
    /\ \A k \in 1..Len(HeadersOf(ld)) :
          ~HeadersOf(ld)[k].marked =>
              \A n \in 1..Len(secs) : secs[n].name # HeadersOf(ld)[k].name

\* C17: every section handed to the scan has the EXECUTABLE permission, and
\* every section whose header does not mark it executable is excluded, for
\* PE, ELF and Mach-O inputs.
C17_OnlyExecutable == pc = "loaded" => OnlyExecutable(loaded, sections)

(***************************************************************************)
(* C18 - I/O errors of the sinks.                                          *)
(***************************************************************************)
\* the output file could not be created, or a line could not be written
FileIoFailed ==
    session.output = "File" /\ (~sink.created \/ Len(sink.file) < Len(gadgets))

\* collect_all_gadgets returned Ok with the final list
ReturnedOk == sink.result = "Ok" /\ final = gadgets

\* C18: an I/O error while creating or writing the output file is returned
\* to the caller and no gadget list is returned; with the console sink or
\* the None sink collect_all_gadgets always returns Ok with the final list.
C18_IoErrors ==
    pc = "done" =>
        /\ FileIoFailed => (sink.result = "Err" /\ final = <<>>)
        /\ session.output \in {"Console", "None"} => ReturnedOk

(***************************************************************************)
(* C19 - completeness of the scan.                                         *)
(***************************************************************************)
\* pattern n of the requested group is selected by the strategy: every
\* pattern with Complete, the first pattern that matches anywhere with Fast
SelectedPattern(sess, data, n) ==
    \/ sess.profile_type # "Fast"
    \/ \A m \in 1..(n - 1) : \A pos \in 0..Len(data) :
          ~MatchesAt(data, patterns_of(sess.gadget_type, X64)[m], pos)

\* the bytes decode to exactly one instruction, of the requested group
OneTerminator(sess, bytes) ==
    /\ disasm_all(bytes, 0) # <<>>
    /\ Len(disasm_all(bytes, 0)) = 1
    /\ Len(disasm_all(bytes, 0)[1].bytes) = Len(bytes)
    /\ Instruction(disasm_all(bytes, 0)[1]).group = sess.gadget_type

\* the positions the scan has to report in section sec
TerminatorAt(sess, sec, pos) ==
    \E n \in 1..Len(patterns_of(sess.gadget_type, X64)) :
        LET pat == patterns_of(sess.gadget_type, X64)[n]
        IN /\ MatchesAt(sec.data, pat, pos)
           /\ SelectedPattern(sess, sec.data, n)
           /\ OneTerminator(sess, SubSeq(sec.data, pos + 1, pos + Len(pat[1])))

TerminatorDecodes(cpu, sec, walk) ==
    LET r == Disassembler_disassemble(
                 cpu.cpu_type,
                 SubSeq(sec.data, walk.pos + 1, walk.pos + walk.len), 0)
    IN r.some /\ Len(r.val) = 1 /\ r.val[1].group = session.gadget_type

\* the walk ended without error and returned the gadget of its terminator
StopsCleanly(cpu, sec, walk) ==
    /\ walk.res.ok
    /\ TerminatorDecodes(cpu, sec, walk) =>
          \E n \in 1..Len(walk.res.gadgets) :
              walk.res.gadgets[n].address = sec.start_address + walk.pos

\* C20: for every candidate (pos, len) and every CPU profile (stride 1 or 4,
\* pos aligned or not), when the next slice would be longer than the window
\* the walker stops without panic and without error and returns the gadgets
\* it has collected for that terminator.
C20_WindowEnd ==
    \A k \in 1..Len(threads) :
        threads[k].state = "finished" =>
            \A n \in 1..Len(threads[k].walks) :
                StopsCleanly(ProfileOf(loaded.cpu),
                             sections[threads[k].section], threads[k].walks[n])

(***************************************************************************)
(* C21 - one gadget per start address and terminator.                      *)
(***************************************************************************)
\* the slices a walk may read: sz bytes that end with the terminator
SliceSizes(kw) ==
    WalkOf(kw).len ..
        (WalkOf(kw).pos + WalkOf(kw).len
         - window_start(WalkOf(kw).pos, X64.max_rewind_size))

\* what the disassembler returns for the slice of sz bytes of the walk
SliceInsns(kw, sz) ==
    LET first == WalkOf(kw).pos + WalkOf(kw).len - sz
    IN cs_disassemble(SubSeq(SectionOf(kw).data, first + 1, first + sz),
                      SectionOf(kw).start_address + first)

\* the slice of sz bytes decodes to a gadget of the requested group
SliceIsGadget(kw, sz) ==
    /\ SliceInsns(kw, sz).some
    /\ SliceInsns(kw, sz).val # <<>>
    /\ Last(SliceInsns(kw, sz).val).group = session.gadget_type

\* C21: the gadgets one walk returns have pairwise distinct addresses, and
\* the gadget kept for an address is the one of the smallest slice that
\* decodes to a gadget at that address.
C21_DistinctAddresses ==
    \A kw \in Walks :
        LET gs == WalkOf(kw).res.gadgets
        IN /\ \A a \in 1..Len(gs) : \A b \in 1..Len(gs) :
                 a # b => gs[a].address # gs[b].address
           /\ \A n \in 1..Len(gs) :
                 \E sz \in SliceSizes(kw) :
                    /\ SliceIsGadget(kw, sz)
                    /\ Gadget_new(SliceInsns(kw, sz).val) = gs[n]
                    /\ \A lower \in SliceSizes(kw) :
                          (lower < sz /\ SliceIsGadget(kw, lower)) =>
                              Gadget_new(SliceInsns(kw, lower).val).address
                              # gs[n].address

\* a walk read two slices that decode to gadgets at the same address (the
\* longer one starts with an instruction the reverse scan dropped) and
\* returned one gadget at that address
C21_Witness ==
    \E kw \in Walks :
        \E sz \in SliceSizes(kw) : \E longer \in SliceSizes(kw) :
            /\ sz < longer
            /\ SliceIsGadget(kw, sz)
            /\ SliceIsGadget(kw, longer)
            /\ Gadget_new(SliceInsns(kw, sz).val).address
               = Gadget_new(SliceInsns(kw, longer).val).address
            /\ \E n \in 1..Len(WalkOf(kw).res.gadgets) :
                  WalkOf(kw).res.gadgets[n] = Gadget_new(SliceInsns(kw, sz).val)

(***************************************************************************)
(* C22 - cost of one walk.                                                 *)
(***************************************************************************)
\* max_rewind / stride of the profile of the loaded file
RewindSteps ==
    ProfileOf(loaded.cpu).max_rewind_size \div ProfileOf(loaded.cpu).insn_step

\* C22 as stated: every walk of a finished worker has ended, after at most
\* max_rewind / stride calls of the disassembler.
C22_Original ==
    \A kw \in Walks : WalkOf(kw).res.calls <= RewindSteps

\* C22 as amended: every walk of a finished worker has ended, after at most
\* max_rewind / stride + 1 calls of the disassembler: one for the slice of
\* the terminator itself and one for each stride of the rewind.
C22_Cost ==
    \A kw \in Walks : WalkOf(kw).res.calls <= RewindSteps + 1

\* a walk with stride 4 that rewound through its whole window: it returned
\* Ok after max_rewind / stride + 1 calls
C22_Witness ==
    \E kw \in Walks :
        /\ ProfileOf(loaded.cpu).insn_step = 4
        /\ WalkOf(kw).res.ok
        /\ WalkOf(kw).pos >= ProfileOf(loaded.cpu).max_rewind_size
        /\ WalkOf(kw).res.calls = RewindSteps + 1

(***************************************************************************)
(* C23 - batches of workers.                                               *)
(***************************************************************************)
\* the workers that are spawned and not yet joined
LiveWorkers ==
    { k \in 1..Len(threads) : pc = "spawn" \/ k > j }

\* the batch holds at most nb_thread workers, and its workers hold the last
\* sections that were handed out, one each
BatchShape ==
    /\ Cardinality(LiveWorkers) <= session.nb_thread
    /\ Len(threads) <= i
    /\ \A k \in 1..Len(threads) : threads[k].section = i - Len(threads) + k
    /\ pc \in {"output", "done"} => (i = Len(sections) /\ threads = <<>>)

\* a step that hands out work hands out the next section, to a new worker;
\* the first worker of a batch is spawned when no worker is left, and the
\* batch is dropped only when each of its workers has been joined
BatchStep ==
    /\ i' # i =>
          \/ /\ i' = i + 1
             /\ Len(threads') = Len(threads) + 1
             /\ threads'[Len(threads')].section = i + 1
             /\ \A k \in 1..Len(threads) : threads'[k] = threads[k]
          \/ pc = "done" /\ i' = 0
    /\ Len(threads') # Len(threads) =>
          \/ i' = i + 1
          \/ /\ threads' = <<>>
             /\ j = Len(threads)
             /\ \A k \in 1..Len(threads) : threads[k].state # "running"

\* C23: at any time at most nb_thread workers are live, every worker of a
\* batch is joined before the first worker of the next batch is spawned, and
\* every section is handed to exactly one worker.
C23_Batches == []BatchShape /\ [][BatchStep]_vars

\* the first worker of a second batch runs: one thread, two sections, the
\* first section joined and dropped
C23_Witness ==
    /\ session.nb_thread = 1
    /\ Len(sections) = 2
    /\ i = 2
    /\ Len(threads) = 1
    /\ threads[1].section = 2
    /\ threads[1].state = "running"
    /\ gadgets # <<>>

(***************************************************************************)
(* C24 - the transfer of the workers' vectors to the shared vector.       *)
(***************************************************************************)
\* the vector the worker of section k returns
LocalResult(k) == process_section(walks_of(session, sections[k], X64))

RECURSIVE UnionOf(_, _)
\* the local vectors of the sections k..Len(sections) outside lost, in order
UnionOf(k, lost) ==
    IF k > Len(sections) THEN <<>>
    ELSE (IF k \in lost THEN <<>> ELSE LocalResult(k)) \o UnionOf(k + 1, lost)

\* the multiset of the elements of a vector
BagOf(v) ==
    [g \in SeqRange(v) |-> Cardinality({k \in 1..Len(v) : v[k] = g})]

\* one step of the program, as far as the shared vector is concerned: it
\* changes only when the scheduler joins a worker or the output pipeline
\* post-processes it; the join of a worker that returned appends that
\* worker's whole vector, once; a worker panics only while it runs, where it
\* holds no reference to the shared vector
TransferStep ==
    /\ (pc = "join" /\ j' = j + 1) =>
          /\ threads' = threads
          /\ threads[j + 1].state = "finished" =>
                gadgets' = gadgets \o threads[j + 1].result
          /\ threads[j + 1].state = "panicked" => gadgets' = gadgets
    /\ gadgets' # gadgets =>
          \/ pc = "join" /\ j' = j + 1 /\ threads[j + 1].state = "finished"
          \/ pc = "output"
          \/ pc = "done"
    /\ \A k \in 1..Len(threads) :
          (Len(threads') = Len(threads) /\ threads'[k].state = "panicked"
              /\ threads[k].state # "panicked") =>
                /\ threads[k].state = "running"
                /\ gadgets' = gadgets
                /\ pc \in {"spawn", "join"}

\* when the output pipeline starts, the shared vector is the union of the
\* local vectors of the workers that returned
TransferDone ==
    pc = "output" =>
        \E lost \in SUBSET (1..Len(sections)) :
            /\ BagOf(gadgets) = BagOf(UnionOf(1, lost))
            /\ Len(gadgets) = Len(UnionOf(1, lost))

\* C24: the shared vector is modified only by whole-vector extends, one per
\* worker that returned, never while a worker can panic; when the output
\* pipeline starts it is the multiset union of the local vectors of the
\* workers that returned.
C24_Transfer == []TransferDone /\ [][TransferStep]_vars

\* the first worker of a batch has panicked and the second has returned a
\* non-empty vector, which is the whole shared vector after its join
C24_Witness ==
    /\ pc = "join"
    /\ j = 2
    /\ Len(threads) = 2
    /\ threads[1].state = "panicked"
    /\ threads[2].state = "finished"
    /\ threads[2].result # <<>>
    /\ gadgets = threads[2].result

(***************************************************************************)
(* C25 - the size of a section and the length of its data.                *)
(***************************************************************************)
\* section.rs:78-80: Section::size
Section_size(section) == section.end_address - section.start_address

\* C25: every section a container loader produces holds as many bytes of
\* data as its address range is long, so that every offset of its data is an
\* address inside the section.
C25_DataLength ==
    pc = "loaded" =>
        \A k \in 1..Len(sections) :
            Len(sections[k].data) = Section_size(sections[k])

(***************************************************************************)
(* C26 - the CPU profile of a container.                                   *)
(***************************************************************************)
\* the CPU type the loader read from the container
ContainerCpuType == FileFormat_parse(loaded.input).val.cpu_type

\* C26: the CPU profile derived from a container's CPU type has that same
\* architecture tag, and a pointer size of 4 for X86 and ARM and of 8 for
\* X64 and ARM64.
C26_ProfileOfType ==
    (pc = "loaded" /\ loaded.format = "Pe") =>
        LET profile == ProfileOf(loaded.cpu)
        IN /\ profile.cpu_type = ContainerCpuType
           /\ profile.ptrsize =
                 (IF ContainerCpuType \in {"X86", "ARM"} THEN 4 ELSE 8)

(***************************************************************************)
(* C27 - the positions of the matcher when the section is read from a      *)
(* cursor.                                                                 *)
(***************************************************************************)
\* C27: for every section and every cursor, each (k, n) the matcher returns
\* designates a match in the section: the n bytes of section.data from
\* offset k match a pattern of the requested group under its mask.
C27_PositionsInSection ==
    \A st \in Strategies :
        m_out[st].done =>
            \A e \in SeqRange(m_out[st].out) :
                \E p \in SeqRange(patterns_of(session.gadget_type, X64)) :
                    e[2] = Len(p[1]) /\ MatchesAt(sections[1].data, p, e[1])

(***************************************************************************)
(* C28 - a gadget ends at its terminator.                                  *)
(***************************************************************************)
\* the address behind the last instruction of a gadget
GadgetEnd(g) == Last(g.insns).address + Last(g.insns).size

\* C28: every gadget a walk emits for the candidate terminator at
\* (pos, len) ends at that terminator: the address behind its last
\* instruction is section.start_address + pos + len.
C28_EndsAtTerminator ==
    \A kw \in Walks :
        \A g \in SeqRange(WalkOf(kw).res.gadgets) :
            GadgetEnd(g) =
                SectionOf(kw).start_address + WalkOf(kw).pos + WalkOf(kw).len

(***************************************************************************)
(* C29 - no gadget twice in the final list.                                *)
(***************************************************************************)
\* C29: with unique_only unset, no two entries of the final list have both
\* the same address and the same raw bytes.
C29_NoDuplicate ==
    (pc = "done" /\ ~session.unique_only) =>
        \A a \in 1..Len(final) : \A b \in 1..Len(final) :
            a # b => ~(/\ final[a].address = final[b].address
                       /\ final[a].raw = final[b].raw)

(***************************************************************************)
(* C30 - deduplication only removes redundant entries.                     *)
(***************************************************************************)
\* the number of entries of the vector v equal to the gadget g
CountOf(v, g) == Cardinality({k \in 1..Len(v) : v[k] = g})

\* C30: with unique_only set, every gadget of the returned list is one of
\* the gadgets found, unchanged and no more often than it was found, and
\* for every gadget found a gadget of the returned list has a text equal to
\* its text under ASCII case-insensitive comparison.
C30_DedupOnlyRedundant ==
    (pc = "done" /\ session.unique_only /\ sink.result = "Ok") =>
        /\ \A g \in SeqRange(final) :
              /\ g \in SeqRange(found)
              /\ CountOf(final, g) <= CountOf(found, g)
        /\ \A f \in SeqRange(found) :
              \E g \in SeqRange(final) :
                  eq_ignore_ascii_case(Gadget_text(g), Gadget_text(f))

\* the dedup removed a gadget that is not in the returned list any more,
\* whose text differs from the text of its survivor by case only
C30_Witness ==
    /\ pc = "done"
    /\ session.unique_only
    /\ sink.result = "Ok"
    /\ \E f \in SeqRange(found) :
          /\ f \notin SeqRange(final)
          /\ \E g \in SeqRange(final) :
                /\ Gadget_text(g) # Gadget_text(f)
                /\ eq_ignore_ascii_case(Gadget_text(g), Gadget_text(f))

=============================================================================
